---------------------------- MODULE Spec2Model ----------------------------
(***************************************************************************)
(* Kanban board client (useBoard hook + Board component) over the external *)
(* row store.  The store holds the rows; every client keeps a view of one  *)
(* board that it rebuilds with fetchBoard.  One step of a client is one    *)
(* store round trip together with the synchronous code that runs when its  *)
(* promise resolves (JavaScript runs to completion between two awaits).    *)
(***************************************************************************)
EXTENDS Integers, Sequences, FiniteSets, TLC

VARIABLES
    store,      \* the rows of the external store
    hook,       \* per client: useBoard's React state and whether it is mounted
    fetches,    \* per client: the fetchBoard calls in flight
    op,         \* per client: the mutation in flight and its closure
    pending,    \* per client: a change notification is not yet delivered
    ui,         \* per client: last toast, confetti
    opsLeft,    \* user operations still allowed (model bound)
    hist,       \* history of what the operations did (for the properties)
    local,      \* per client: the state of the Board component and its card modal
    auth,       \* AuthProvider: its React state and its calls in flight
    acct,       \* the store's profile, organizations, memberships and boards of the user
    nav,        \* the router: requested url, location, AuthCallback's state
    themeState, \* useTheme in each tab, localStorage and the system preference
    other,      \* changes of rows of another board and their notifications
    filterView  \* Board's filterState, the columns it filters and filteredColumns

vars == <<store, hook, fetches, op, pending, ui, opsLeft, hist, local, auth, acct, nav, themeState, other, filterView>>

\* the variables of the store and of useBoard
boardVars == <<store, hook, fetches, op, pending, ui, opsLeft, hist>>

-----------------------------------------------------------------------------
(* Bounds *)

MaxOps == 1         \* user operations per behaviour of one client
MaxOpsTwo == 2      \* user operations per behaviour of two clients

Clients == {"u1", "u2"}
LabelIds == {"L1"}
InputTitles == {"Review", "Done"}       \* column titles a user types
CardTexts == {"t0", "t1"}               \* card titles
Users == {"nobody", "ann"}              \* assigned_to, "nobody" is null
Positions == {0, 2}                     \* arguments of reorderColumns

NoError == "null"
NoLimit == {}

-----------------------------------------------------------------------------
(* Strings: a title is looked up as its characters, so that toLowerCase    *)
(* and includes are computed.                                              *)

TitleChars(t) ==
    CASE t = "To Do"      -> <<"T", "o", " ", "D", "o">>
      [] t = "Doing"      -> <<"D", "o", "i", "n", "g">>
      [] t = "DONE"       -> <<"D", "O", "N", "E">>
      [] t = "Done"       -> <<"D", "o", "n", "e">>
      [] t = "TAMAMLANDI" -> <<"T", "A", "M", "A", "M", "L", "A", "N", "D", "I">>
      [] t = "Biten"      -> <<"B", "i", "t", "e", "n">>
      [] t = "Review"     -> <<"R", "e", "v", "i", "e", "w">>
      [] OTHER            -> <<>>

toLowerCaseChar(ch) ==
    CASE ch = "T" -> "t" [] ch = "D" -> "d" [] ch = "O" -> "o"
      [] ch = "N" -> "n" [] ch = "E" -> "e" [] ch = "B" -> "b"
      [] ch = "R" -> "r" [] ch = "A" -> "a" [] ch = "M" -> "m"
      [] ch = "L" -> "l" [] ch = "I" -> "i"
      [] OTHER -> ch

toLowerCase(s) == [i \in DOMAIN s |-> toLowerCaseChar(s[i])]

includes(s, sub) ==
    \E i \in 0..(Len(s) - Len(sub)) : \A j \in 1..Len(sub) : s[i + j] = sub[j]

IsDoneTitle_caseSensitive(t) ==
    LET l == TitleChars(t)
    IN  \/ includes(l, <<"d", "o", "n", "e">>)
        \/ includes(l, <<"t", "a", "m", "a", "m">>)
        \/ includes(l, <<"b", "i", "t", "e", "n">>)

\* The predicate of columns.find in toggleSubtask.
IsDoneTitle(t) ==
    LET l == toLowerCase(TitleChars(t))
    IN  \/ includes(l, <<"d", "o", "n", "e">>)
        \/ includes(l, <<"t", "a", "m", "a", "m">>)
        \/ includes(l, <<"b", "i", "t", "e", "n">>)

-----------------------------------------------------------------------------
(* Sequences and orderings *)

Range(s) == {s[i] : i \in DOMAIN s}

SelectIdx(s, Test(_)) == {i \in DOMAIN s : Test(s[i])}

\* index of the first element satisfying Test, 0 when none (Array.findIndex + 1)
FindIndex(s, Test(_)) ==
    IF SelectIdx(s, Test) = {} THEN 0
    ELSE CHOOSE i \in SelectIdx(s, Test) : \A j \in SelectIdx(s, Test) : i <= j

MaxOf(S, default) ==
    IF S = {} THEN default ELSE CHOOSE x \in S : \A y \in S : y <= x

\* All the orders in which a query with .order('position') may return the rows
\* ids: rows with an equal position come in any order.
OrderedBy(ids, pos) ==
    {s \in [1..Cardinality(ids) -> ids] :
        /\ \A i, j \in DOMAIN s : i # j => s[i] # s[j]
        /\ \A i \in DOMAIN s : \A j \in DOMAIN s : i < j => pos[s[i]] <= pos[s[j]]}

Remove(f, ks) == [k \in DOMAIN f \ ks |-> f[k]]

-----------------------------------------------------------------------------
(* The store.  columns, cards, subtasks, attachments and comments map a    *)
(* row id to its fields; an id is never used twice (seq counts the ids     *)
(* given out per table).  All rows belong to the one board "b1".           *)

ColumnRow(t, p, w) == [title |-> t, position |-> p, wip_limit |-> w]
CardRow(col, p, t, a) == [column_id |-> col, position |-> p, title |-> t, assigned_to |-> a]
SubtaskRow(card, done) == [card_id |-> card, is_completed |-> done]
AttachmentRow(card, path) == [card_id |-> card, storage_path |-> path]

\* A board as a template leaves it, after some use: three columns at
\* positions 0, 1, 2, card 1 with two subtasks, card 2 in the last column
\* with an attachment and a comment.
SeedStore(t2, t3, wip3, c1col, c1pos, s2done) ==
    [columns |-> (1 :> ColumnRow("To Do", 0, NoLimit))
              @@ (2 :> ColumnRow(t2, 1, NoLimit))
              @@ (3 :> ColumnRow(t3, 2, wip3)),
     cards |-> (1 :> CardRow(c1col, c1pos, "t0", "nobody"))
            @@ (2 :> CardRow(3, 0, "t0", "nobody")),
     subtasks |-> (1 :> SubtaskRow(1, FALSE)) @@ (2 :> SubtaskRow(1, s2done)),
     cardLabels |-> {},
     attachments |-> (1 :> AttachmentRow(2, 1)),
     files |-> {1},
     comments |-> (1 :> [card_id |-> 2]),
     activities |-> 0,
     seq |-> [columns |-> 3, cards |-> 2, subtasks |-> 2, attachments |-> 1,
              comments |-> 1, files |-> 1]]

SeedStores ==
    {SeedStore("Doing", "DONE", NoLimit, 1, 0, TRUE),
     SeedStore("Doing", "DONE", NoLimit, 1, 0, FALSE),
     SeedStore("Doing", "Review", NoLimit, 1, 0, TRUE),
     SeedStore("TAMAMLANDI", "DONE", NoLimit, 1, 0, TRUE),
     SeedStore("Doing", "DONE", NoLimit, 3, 1, TRUE),
     SeedStore("Doing", "DONE", {1}, 2, 0, TRUE)}

\* The tables a board channel listens to (postgres_changes subscriptions).
SubscribedTables == {"columns", "cards", "attachments", "comments", "activities"}

\* pending after a change of rows of the tables tbls: every subscribed client
\* has a notification to come.
Notified(pend, tbls) ==
    [c \in Clients |->
        pend[c] \/ (hook[c].mounted /\ tbls \cap SubscribedTables # {})]

\* ON DELETE CASCADE: the rows that go with the cards cs.
WithoutCards(st, cs) ==
    [st EXCEPT
        !.cards = Remove(@, cs),
        !.subtasks = Remove(@, {s \in DOMAIN @ : @[s].card_id \in cs}),
        !.cardLabels = {cl \in @ : cl[1] \notin cs},
        !.attachments = Remove(@, {a \in DOMAIN @ : @[a].card_id \in cs}),
        !.comments = Remove(@, {m \in DOMAIN @ : @[m].card_id \in cs})]

CardsOfColumn(st, col) == {k \in DOMAIN st.cards : st.cards[k].column_id = col}

-----------------------------------------------------------------------------
(* useBoard state *)

NoBoard == "null"

HookInit == [mounted |-> FALSE, board |-> NoBoard, columns |-> <<>>,
             loading |-> TRUE, error |-> NoError]

\* A fetchBoard call in flight: the query it waits for and the rows it has
\* read.  A client has at most one call that a mutation awaits ("op") and one
\* that nobody awaits ("bg") in flight.
NoFetch == [stage |-> "none", cols |-> <<>>, cards |-> <<>>]
NewFetch == [stage |-> "board", cols |-> <<>>, cards |-> <<>>]
FetchSlots == {"op", "bg"}

\* A mutation in flight: where it is (pc), the handler the user invoked (name),
\* who called moveCard (via), its arguments, the columns its closure captured
\* (snap), how often the store call it waits for was issued (calls), what
\* moveCard returned (moveRet) and what the invoked function returned (ret).
Idle == [pc |-> "idle", name |-> "none", via |-> "none", card |-> 0, col |-> 0,
         pos |-> 0, sub |-> 0, att |-> 0, flag |-> FALSE, text |-> "", snap |-> <<>>,
         calls |-> 0, moveRet |-> "none", ret |-> "none"]

\* the function returned r; its closure is dropped
Done(o, r) == [o EXCEPT !.pc = "done", !.ret = r, !.snap = <<>>]

UiInit == [toast |-> "none", confetti |-> FALSE]

\* Board's render: the columns are shown only past the three early returns.
Rendered(c) ==
    /\ hook[c].mounted
    /\ ~hook[c].loading
    /\ hook[c].error = NoError
    /\ hook[c].board # NoBoard

\* fetchBoard up to its first await: setLoading(true); setError(null).
FetchCalled(h) == [h EXCEPT !.loading = TRUE, !.error = NoError]

CanFetch(c, slot) == fetches[c][slot].stage = "none"

\* The view model fetchBoard composes from the rows it read.
CardView(st, row, subsOk, labOk) ==
    [id |-> row.id, column_id |-> row.column_id, position |-> row.position,
     title |-> row.title, assigned_to |-> row.assigned_to,
     subtasks |-> IF subsOk
                  THEN {[id |-> s, is_completed |-> st.subtasks[s].is_completed] :
                            s \in {x \in DOMAIN st.subtasks : st.subtasks[x].card_id = row.id}}
                  ELSE {},
     labels |-> IF labOk THEN {cl[2] : cl \in {x \in st.cardLabels : x[1] = row.id}} ELSE {},
     attachments |-> {[id |-> a, storage_path |-> st.attachments[a].storage_path] :
                        a \in {x \in DOMAIN st.attachments : st.attachments[x].card_id = row.id}},
     comments |-> {m \in DOMAIN st.comments : st.comments[m].card_id = row.id}]

Compose(st, cols, cards, subsOk, labOk) ==
    [i \in DOMAIN cols |->
        LET InCol(cd) == cd.column_id = cols[i].id
            mine == SelectSeq(cards, InCol)
        IN  [id |-> cols[i].id, title |-> cols[i].title, position |-> cols[i].position,
             wip_limit |-> cols[i].wip_limit,
             cards |-> [j \in DOMAIN mine |-> CardView(st, mine[j], subsOk, labOk)]]]

-----------------------------------------------------------------------------
(* The subtask-completion rule as the specification words it, on the       *)
(* columns the hook holds when toggleSubtask is called.                    *)

ViewCards(cols) == UNION {Range(cols[i].cards) : i \in DOMAIN cols}

CardsWithSubtask(cols, s) ==
    {cd \in ViewCards(cols) : \E x \in cd.subtasks : x.id = s}

TitleMatchesDone(t) ==
    \E w \in {<<"d", "o", "n", "e">>, <<"t", "a", "m", "a", "m">>,
              <<"b", "i", "t", "e", "n">>} :
        includes(toLowerCase(TitleChars(t)), w)

MatchingColumns(cols) == {i \in DOMAIN cols : TitleMatchesDone(cols[i].title)}

FirstMatching(cols) ==
    CHOOSE i \in MatchingColumns(cols) : \A j \in MatchingColumns(cols) : i <= j

\* Which case of the rule a call toggleSubtask(s, flag) is in.
ToggleCase(cols, s, flag) ==
    IF ~flag THEN "unchecked"
    ELSE IF CardsWithSubtask(cols, s) = {} THEN "absent"
    ELSE LET cd == CHOOSE x \in CardsWithSubtask(cols, s) : TRUE
         IN  IF \E x \in cd.subtasks : x.id # s /\ ~x.is_completed THEN "sibling"
             ELSE IF MatchingColumns(cols) = {} THEN "nodone"
             ELSE IF cols[FirstMatching(cols)].id = cd.column_id THEN "already"
             ELSE "auto"

\* In case "auto": the card and the column the rule names.
RuleCard(cols, s) == (CHOOSE x \in CardsWithSubtask(cols, s) : TRUE).id
RuleColumn(cols) == cols[FirstMatching(cols)].id

-----------------------------------------------------------------------------
(* History: what the last mutation of each client did, kept for the        *)
(* properties only; no action reads it.                                    *)

HistInit == [toggled |-> FALSE,     \* the subtask update was accepted
             case |-> "none",       \* ToggleCase of the call, once accepted
             ruleCard |-> 0,        \* in case "auto": the card and
             ruleCol |-> 0,         \*   the column of the rule
             moved |-> "none",      \* the card move: none, ok, norow, error
             row |-> CardRow(0, 0, "", ""),  \* the card's row right after the move
             allDone |-> TRUE,      \* at the move, all its subtasks were complete
             landed |-> "na",       \* after the move's refetch: first, notfirst, gone
             overwritten |-> FALSE, \* another client moved the same card after it
             errors |-> 0,          \* store calls of the mutation that returned an error
             dirty |-> FALSE]       \* it changed a table and no fetchBoard call followed

SetClient(c, h, f, o, u) ==
    /\ hook' = [hook EXCEPT ![c] = h]
    /\ fetches' = [fetches EXCEPT ![c] = f]
    /\ op' = [op EXCEPT ![c] = o]
    /\ ui' = [ui EXCEPT ![c] = u]

-----------------------------------------------------------------------------
(* What runs when the fetchBoard call a mutation awaits has returned.      *)

\* checkCardCompletion, with the columns of the handler's closure
CompletionConfetti(snap, target) ==
    \E i \in DOMAIN snap :
        /\ snap[i].id = target
        /\ includes(toLowerCase(TitleChars(snap[i].title)), <<"d", "o", "n", "e">>)

\* moveCard returned r ("true" or "false") to its caller: the mutation and the
\* ui after the caller has run to its end.
MoveReturned(o, u, r) ==
    IF o.via = "toggle"
    THEN \* toggleSubtask ignores r and returns the message; handleToggleSubtask
         \* fires the confetti and the toast
         <<Done([o EXCEPT !.moveRet = r], "message"),
           [toast |-> "automation", confetti |-> TRUE]>>
    ELSE \* handleMoveCardToColumn
         IF r = "true"
         THEN <<Done([o EXCEPT !.moveRet = r], r),
                [toast |-> "moved", confetti |-> CompletionConfetti(o.snap, o.col)]>>
         ELSE <<Done([o EXCEPT !.moveRet = r], r), u>>

AfterOwnFetch(o, u) ==
    IF o.pc = "move.fetch" THEN MoveReturned(o, u, "true")
    ELSE \* addColumn: return data; handleAddColumn toasts
         <<Done(o, "data"), [u EXCEPT !.toast = "column-added"]>>

\* Where the moved card is in the columns a refetch produced.
Landed(cols, card, target) ==
    LET IsTarget(col) == col.id = target
        i == FindIndex(cols, IsTarget)
    IN  IF i = 0 THEN "gone"
        ELSE IF \E j \in DOMAIN cols[i].cards : cols[i].cards[j].id = card
             THEN IF cols[i].cards[1].id = card THEN "first" ELSE "notfirst"
             ELSE "gone"

-----------------------------------------------------------------------------
(* fetchBoard *)

\* The call in slot sl of client c ends, leaving the hook as h:
\* setLoading(false), and the mutation that awaits it goes on.
EndFetch(c, sl, h, ok) ==
    LET o == op[c]
        r == IF sl = "op" THEN AfterOwnFetch(o, ui[c]) ELSE <<o, ui[c]>>
    IN  /\ SetClient(c, [h EXCEPT !.loading = FALSE],
                     [fetches[c] EXCEPT ![sl] = NoFetch], r[1], r[2])
        /\ hist' = [hist EXCEPT ![c].landed =
                        IF sl = "op" /\ o.pc = "move.fetch" /\ ok
                        THEN Landed(h.columns, o.card, o.col) ELSE @]
        /\ UNCHANGED <<store, pending, opsLeft>>

\* catch: setError(message)
FetchError(c, sl) ==
    EndFetch(c, sl, [hook[c] EXCEPT !.error = "Failed to fetch board"], FALSE)

\* db.boards().select('*').eq('id', boardId).single(), then setBoard
FetchBoardRow(c) ==
    \E sl \in FetchSlots :
        /\ fetches[c][sl].stage = "board"
        /\ \/ /\ hook' = [hook EXCEPT ![c].board = "b1"]
              /\ fetches' = [fetches EXCEPT ![c][sl].stage = "columns"]
              /\ UNCHANGED <<store, op, pending, ui, opsLeft, hist>>
           \/ FetchError(c, sl)

\* db.columns().select('*').eq('board_id', boardId).order('position')
FetchColumns(c) ==
    \E sl \in FetchSlots :
        /\ fetches[c][sl].stage = "columns"
        /\ \/ \E ord \in OrderedBy(DOMAIN store.columns,
                                   [k \in DOMAIN store.columns |-> store.columns[k].position]) :
                LET cols == [j \in DOMAIN ord |->
                                [id |-> ord[j], title |-> store.columns[ord[j]].title,
                                 position |-> store.columns[ord[j]].position,
                                 wip_limit |-> store.columns[ord[j]].wip_limit]]
                IN  IF cols = <<>>
                    THEN \* no column: the card queries are skipped
                         EndFetch(c, sl, [hook[c] EXCEPT !.columns = <<>>], TRUE)
                    ELSE /\ fetches' = [fetches EXCEPT ![c][sl].stage = "cards",
                                                        ![c][sl].cols = cols]
                         /\ UNCHANGED <<store, hook, op, pending, ui, opsLeft, hist>>
           \/ FetchError(c, sl)

\* db.cards().select('*').in('column_id', columnIds).order('position')
FetchCards(c) ==
    \E sl \in FetchSlots :
        /\ fetches[c][sl].stage = "cards"
        /\ \/ LET colIds == {fetches[c][sl].cols[j].id : j \in DOMAIN fetches[c][sl].cols}
                  ids == {k \in DOMAIN store.cards : store.cards[k].column_id \in colIds}
              IN  \E ord \in OrderedBy(ids, [k \in ids |-> store.cards[k].position]) :
                    /\ fetches' = [fetches EXCEPT
                          ![c][sl].stage = "details",
                          ![c][sl].cards = [j \in DOMAIN ord |->
                              [id |-> ord[j], column_id |-> store.cards[ord[j]].column_id,
                               position |-> store.cards[ord[j]].position,
                               title |-> store.cards[ord[j]].title,
                               assigned_to |-> store.cards[ord[j]].assigned_to]]]
                    /\ UNCHANGED <<store, hook, op, pending, ui, opsLeft, hist>>
           \/ FetchError(c, sl)

\* The reads of subtasks, attachments, comments, activities, labels and
\* card_labels, taken as one read, then setColumns(columnsWithCards).  An
\* error of the subtasks read or of a labels read leaves that list empty.
FetchDetails(c) ==
    \E sl \in FetchSlots :
        /\ fetches[c][sl].stage = "details"
        /\ \E subsOk, labOk \in BOOLEAN :
             EndFetch(c, sl,
                      [hook[c] EXCEPT !.columns =
                          Compose(store, fetches[c][sl].cols, fetches[c][sl].cards,
                                  subsOk, labOk)],
                      TRUE)

\* A change notification arrives: () => fetchBoard()
Deliver(c) ==
    /\ hook[c].mounted
    /\ pending[c]
    /\ CanFetch(c, "bg")
    /\ pending' = [pending EXCEPT ![c] = FALSE]
    /\ hook' = [hook EXCEPT ![c] = FetchCalled(@)]
    /\ fetches' = [fetches EXCEPT ![c].bg = NewFetch]
    /\ hist' = [hist EXCEPT ![c].dirty = FALSE]
    /\ UNCHANGED <<store, op, ui, opsLeft>>

-----------------------------------------------------------------------------
(* A user action on the rendered board starts a mutation.  A client runs   *)
(* one mutation at a time; opsLeft bounds the mutations of a behaviour.    *)

CanCall(c) ==
    /\ Rendered(c)
    /\ op[c].pc \in {"idle", "done"}
    /\ opsLeft > 0

\* The handler is invoked: its closure holds the columns of this render.
Call(c, o) ==
    /\ op' = [op EXCEPT ![c] = [o EXCEPT !.snap = hook[c].columns, !.calls = 1]]
    /\ ui' = [ui EXCEPT ![c] = UiInit]
    /\ hist' = [hist EXCEPT ![c] = HistInit]
    /\ opsLeft' = opsLeft - 1
    /\ UNCHANGED <<store, hook, fetches, pending>>

\* the mutation calls fetchBoard and awaits it
WithFetch(c, o, h) ==
    /\ op' = [op EXCEPT ![c] = o]
    /\ hook' = [hook EXCEPT ![c] = FetchCalled(h)]
    /\ fetches' = [fetches EXCEPT ![c].op = NewFetch]

\* logActivity: the insert into activities; an error is only logged.
LogActivity(c, ok) ==
    /\ store' = IF ok THEN [store EXCEPT !.activities = @ + 1] ELSE store
    /\ pending' = IF ok THEN Notified(pending, {"activities"}) ELSE pending

-----------------------------------------------------------------------------
(* moveCard *)


\* An update under optimistic locking: refused if the card is no longer in
\* the column where the caller saw it.
MoveAccepts_ifUnmoved(st, o) ==
    /\ o.card \in DOMAIN st.cards => o.col \in DOMAIN st.columns
    /\ \A i \in DOMAIN o.snap : \A j \in DOMAIN o.snap[i].cards :
          o.snap[i].cards[j].id = o.card /\ o.card \in DOMAIN st.cards
              => st.cards[o.card].column_id = o.snap[i].id

\* The foreign key of cards.column_id: the update of an existing card needs
\* the target column to exist.  The store has no other check on it.
MoveAccepts(st, o) == o.card \in DOMAIN st.cards => o.col \in DOMAIN st.columns

MovedStore(st, o) ==
    IF o.card \in DOMAIN st.cards
    THEN [st EXCEPT !.cards[o.card].column_id = o.col, !.cards[o.card].position = o.pos]
    ELSE st

ColumnIndexOfCard(cols, card) ==
    LET Holds(col) == \E j \in DOMAIN col.cards : col.cards[j].id = card
    IN  FindIndex(cols, Holds)

ColumnIndexOfId(cols, id) ==
    LET Is(col) == col.id = id
    IN  FindIndex(cols, Is)

\* An arrow button of a card: handleMoveCardToColumn(cardId, direction)
MoveCall(c) ==
    /\ CanCall(c)
    /\ \E i \in DOMAIN hook[c].columns, dir \in {-1, 1} :
         \E j \in DOMAIN hook[c].columns[i].cards :
            /\ i + dir \in DOMAIN hook[c].columns
            /\ Call(c, [Idle EXCEPT !.pc = "move.update", !.name = "moveCard",
                                    !.via = "arrow",
                                    !.card = hook[c].columns[i].cards[j].id,
                                    !.col = hook[c].columns[i + dir].id,
                                    !.pos = 0])

\* fromCol && toCol && fromCol.id !== toCol.id
MoveLogs(o) ==
    LET f == ColumnIndexOfCard(o.snap, o.card)
        t == ColumnIndexOfId(o.snap, o.col)
    IN  f # 0 /\ t # 0 /\ o.snap[f].id # o.snap[t].id

\* db.cards().update({column_id, position}).eq('id', cardId) is accepted
MoveUpdateOk(c) ==
    LET o == op[c]
        there == o.card \in DOMAIN store.cards
    IN  /\ MoveAccepts(store, o)
        /\ store' = MovedStore(store, o)
        /\ pending' = IF there THEN Notified(pending, {"cards"}) ELSE pending
        /\ hist' = [d \in Clients |->
              IF d # c
              THEN [hist[d] EXCEPT !.overwritten =
                        @ \/ (there /\ hist[d].moved = "ok" /\ op[d].card = o.card)]
              ELSE [hist[c] EXCEPT
                      !.moved = IF there THEN "ok" ELSE "norow",
                      !.row = IF there THEN MovedStore(store, o).cards[o.card] ELSE @,
                      !.overwritten = FALSE,
                      !.allDone = \A s \in DOMAIN store.subtasks :
                                     store.subtasks[s].card_id = o.card
                                         => store.subtasks[s].is_completed,
                      !.dirty = MoveLogs(o) /\ (@ \/ there)]]
        /\ IF MoveLogs(o)
           THEN /\ op' = [op EXCEPT ![c].pc = "move.log"]
                /\ UNCHANGED <<hook, fetches>>
           ELSE WithFetch(c, [o EXCEPT !.pc = "move.fetch"], hook[c])
        /\ UNCHANGED <<ui, opsLeft>>

\* updateError: catch, setError, return false
MoveUpdateError(c) ==
    LET r == MoveReturned(op[c], ui[c], "false")
    IN  /\ SetClient(c, [hook[c] EXCEPT !.error = "Failed to move card"],
                     fetches[c], r[1], r[2])
        /\ hist' = [hist EXCEPT ![c].moved = "error", ![c].errors = @ + 1]
        /\ UNCHANGED <<store, pending, opsLeft>>

MoveUpdate(c) ==
    /\ op[c].pc = "move.update"
    /\ \/ MoveUpdateOk(c)
       \/ MoveUpdateError(c)

\* logActivity(cardId, 'move_card', ...) answers; then await fetchBoard()
MoveLog(c) ==
    /\ op[c].pc = "move.log"
    /\ \E ok \in BOOLEAN : LogActivity(c, ok)
    /\ WithFetch(c, [op[c] EXCEPT !.pc = "move.fetch"], hook[c])
    /\ hist' = [hist EXCEPT ![c].dirty = FALSE]
    /\ UNCHANGED <<ui, opsLeft>>

-----------------------------------------------------------------------------
(* toggleSubtask *)

\* the first card of the columns whose subtasks hold s: <<i, j>>, or <<0, 0>>
CardOfSubtask(snap, s) ==
    LET Has(cd) == \E x \in cd.subtasks : x.id = s
        InCol(col) == \E j \in DOMAIN col.cards : Has(col.cards[j])
        i == FindIndex(snap, InCol)
    IN  IF i = 0 THEN <<0, 0>> ELSE <<i, FindIndex(snap[i].cards, Has)>>

\* a check that looks at the toggled subtask only
AllOthersCompleted_ignored(card, s) == \E x \in card.subtasks : x.id = s

\* currentSubtasks.filter(x => x.id !== subtaskId).every(x => x.is_completed)
AllOthersCompleted(card, s) ==
    \A x \in {y \in card.subtasks : y.id # s} : x.is_completed

\* columns.find(c => title includes 'done' || 'tamam' || 'biten')
DoneColumnIndex(snap) ==
    LET Matches(col) == IsDoneTitle(col.title)
    IN  FindIndex(snap, Matches)

\* The move the automation makes: <<cardId, doneColumn.id>>, or <<0, 0>>.
AutomationTarget(snap, s, isCompleted) ==
    LET at == CardOfSubtask(snap, s)
    IN  IF ~isCompleted \/ at[1] = 0 THEN <<0, 0>>
        ELSE LET card == snap[at[1]].cards[at[2]]
                 d == DoneColumnIndex(snap)
                 cur == ColumnIndexOfCard(snap, card.id)
             IN  IF /\ card.subtasks # {}
                    /\ AllOthersCompleted(card, s)
                    /\ d # 0 /\ cur # 0
                    /\ snap[d].id # snap[cur].id
                 THEN <<card.id, snap[d].id>>
                 ELSE <<0, 0>>

\* A subtask checkbox of the card modal: onToggleSubtask(id, e.target.checked)
ToggleCall(c) ==
    /\ CanCall(c)
    /\ \E cd \in ViewCards(hook[c].columns) : \E x \in cd.subtasks :
         Call(c, [Idle EXCEPT !.pc = "toggle.update", !.name = "toggleSubtask",
                              !.sub = x.id, !.flag = ~x.is_completed])

\* db.subtasks().update({is_completed}).eq('id', subtaskId) answers
ToggleUpdate(c) ==
    LET o == op[c]
        there == o.sub \in DOMAIN store.subtasks
        tgt == AutomationTarget(o.snap, o.sub, o.flag)
    IN  /\ o.pc = "toggle.update"
        /\ \/ /\ tgt[1] = 0 => CanFetch(c, "bg")
              /\ store' = IF there
                          THEN [store EXCEPT !.subtasks[o.sub].is_completed = o.flag]
                          ELSE store
              /\ hist' = [hist EXCEPT
                    ![c].toggled = TRUE,
                    ![c].case = ToggleCase(o.snap, o.sub, o.flag),
                    ![c].ruleCard = IF ToggleCase(o.snap, o.sub, o.flag) = "auto"
                                    THEN RuleCard(o.snap, o.sub) ELSE 0,
                    ![c].ruleCol = IF ToggleCase(o.snap, o.sub, o.flag) = "auto"
                                   THEN RuleColumn(o.snap) ELSE 0,
                    ![c].dirty = there /\ tgt[1] # 0]
              /\ IF tgt[1] # 0
                 THEN \* await moveCard(cardId, doneColumn.id, 0)
                      SetClient(c, hook[c], fetches[c],
                                [o EXCEPT !.pc = "move.update", !.via = "toggle",
                                          !.card = tgt[1], !.col = tgt[2], !.pos = 0,
                                          !.calls = 1],
                                ui[c])
                 ELSE \* fetchBoard(); return {}
                      SetClient(c, FetchCalled(hook[c]),
                                [fetches[c] EXCEPT !.bg = NewFetch], Done(o, "{}"), ui[c])
              /\ UNCHANGED <<pending, opsLeft>>
           \/ \* error: catch, setError, return {}
              /\ SetClient(c, [hook[c] EXCEPT !.error = "Failed to toggle subtask"],
                           fetches[c], Done(o, "{}"), ui[c])
              /\ hist' = [hist EXCEPT ![c].errors = @ + 1]
              /\ UNCHANGED <<store, pending, opsLeft>>

-----------------------------------------------------------------------------
(* The other mutations of useBoard.  Each store call either is accepted or *)
(* returns an error; an update or delete that matches no row is accepted   *)
(* and changes nothing.                                                    *)

\* a catch block that issues the store call again
Fail_retry(c, message, r, u) ==
    /\ op[c].calls < 2
    /\ op' = [op EXCEPT ![c].calls = @ + 1]
    /\ hist' = [hist EXCEPT ![c].errors = @ + 1]
    /\ UNCHANGED <<store, hook, fetches, pending, ui, opsLeft>>

\* catch (err) { setError(message); return r }: the mutation ends, ui is u
Fail(c, message, r, u) ==
    /\ SetClient(c, [hook[c] EXCEPT !.error = message], fetches[c], Done(op[c], r), u)
    /\ hist' = [hist EXCEPT ![c].errors = @ + 1]
    /\ UNCHANGED <<store, pending, opsLeft>>

\* The store call was accepted, the store is now st after a change of the
\* tables tbls (none if no row matched), and the mutation goes on as o.
Wrote(c, st, tbls, o, u) ==
    /\ store' = st
    /\ pending' = Notified(pending, tbls)
    /\ hist' = [hist EXCEPT ![c].dirty = @ \/ (st # store /\ tbls # {})]
    /\ SetClient(c, hook[c], fetches[c], o, u)
    /\ UNCHANGED opsLeft

\* await logActivity(...) answers and the mutation returns r
LogAndReturn(c, r, u) ==
    /\ \E ok \in BOOLEAN :
         /\ LogActivity(c, ok)
         /\ hist' = [hist EXCEPT ![c].dirty = @ \/ ok]
    /\ SetClient(c, hook[c], fetches[c], Done(op[c], r), u)
    /\ UNCHANGED opsLeft

(* addColumn *)

\* the add-column form: handleAddColumn with a non-empty title
AddColumnCall(c) ==
    /\ CanCall(c)
    /\ \E t \in InputTitles :
         Call(c, [Idle EXCEPT !.pc = "addColumn.insert", !.name = "addColumn", !.text = t,
                    !.pos = MaxOf({hook[c].columns[i].position : i \in DOMAIN hook[c].columns},
                                  -1) + 1])

\* db.columns().insert({board_id, title, position}) answers; await fetchBoard()
AddColumnInsert(c) ==
    LET o == op[c]
        id == store.seq.columns + 1
    IN  /\ o.pc = "addColumn.insert"
        /\ \/ /\ store' = [store EXCEPT !.columns = @ @@ (id :> ColumnRow(o.text, o.pos, NoLimit)),
                                        !.seq.columns = id]
              /\ pending' = Notified(pending, {"columns"})
              /\ WithFetch(c, [o EXCEPT !.pc = "addColumn.fetch"], hook[c])
              /\ UNCHANGED <<ui, opsLeft, hist>>
           \/ Fail(c, "Failed to add column", "null", ui[c])

(* updateColumn *)

\* the column title input: handleTitleSave with a changed, non-empty title
UpdateColumnCall(c) ==
    /\ CanCall(c)
    /\ \E i \in DOMAIN hook[c].columns, t \in InputTitles :
         /\ t # hook[c].columns[i].title
         /\ Call(c, [Idle EXCEPT !.pc = "updateColumn.update", !.name = "updateColumn",
                                 !.col = hook[c].columns[i].id, !.text = t])

UpdateColumnUpdate(c) ==
    LET o == op[c]
    IN  /\ o.pc = "updateColumn.update"
        /\ \/ IF o.col \in DOMAIN store.columns
              THEN Wrote(c, [store EXCEPT !.columns[o.col].title = o.text], {"columns"},
                         Done(o, "true"), ui[c])
              ELSE Wrote(c, store, {}, Done(o, "true"), ui[c])
           \/ Fail(c, "Failed to update column", "false", ui[c])

(* deleteColumn *)

\* the column's delete button, confirmed: handleDeleteColumn
DeleteColumnCall(c) ==
    /\ CanCall(c)
    /\ \E i \in DOMAIN hook[c].columns :
         Call(c, [Idle EXCEPT !.pc = "deleteColumn.delete", !.name = "deleteColumn",
                              !.col = hook[c].columns[i].id])

DeleteColumnDelete(c) ==
    LET o == op[c]
        gone == CardsOfColumn(store, o.col)
    IN  /\ o.pc = "deleteColumn.delete"
        /\ \/ IF o.col \in DOMAIN store.columns
              THEN Wrote(c, [WithoutCards(store, gone) EXCEPT !.columns = Remove(@, {o.col})],
                         {"columns"} \cup (IF gone = {} THEN {} ELSE {"cards"}),
                         Done(o, "true"), [ui[c] EXCEPT !.toast = "column-deleted"])
              ELSE Wrote(c, store, {}, Done(o, "true"),
                         [ui[c] EXCEPT !.toast = "column-deleted"])
           \/ Fail(c, "Failed to delete column", "false",
                   [ui[c] EXCEPT !.toast = "column-delete-failed"])

(* addCard *)

\* Column: isOverLimit = wipLimit !== null && cardCount >= wipLimit
IsOverLimit(col) == \E w \in col.wip_limit : Len(col.cards) >= w

\* the add-card form of a column whose button is not disabled: handleAddCard
AddCardCall(c) ==
    /\ CanCall(c)
    /\ \E i \in DOMAIN hook[c].columns, t \in CardTexts :
         LET col == hook[c].columns[i]
         IN  /\ ~IsOverLimit(col)
             /\ Call(c, [Idle EXCEPT !.pc = "addCard.insert", !.name = "addCard",
                          !.col = col.id, !.text = t,
                          !.pos = MaxOf({col.cards[j].position : j \in DOMAIN col.cards},
                                        -1) + 1])

\* db.cards().insert({column_id, title, position}) answers
AddCardInsert(c) ==
    LET o == op[c]
        id == store.seq.cards + 1
    IN  /\ o.pc = "addCard.insert"
        /\ \/ /\ o.col \in DOMAIN store.columns
              /\ Wrote(c, [store EXCEPT !.cards = @ @@ (id :> CardRow(o.col, o.pos, o.text, "nobody")),
                                        !.seq.cards = id],
                       {"cards"}, [o EXCEPT !.pc = "addCard.log", !.card = id], ui[c])
           \/ Fail(c, "Failed to add card", "null", ui[c])

AddCardLog(c) ==
    /\ op[c].pc = "addCard.log"
    /\ LogAndReturn(c, "data", [ui[c] EXCEPT !.toast = "card-added"])

(* updateCard *)

\* Save in the card modal: onSave(cardId, updates)
UpdateCardCall(c) ==
    /\ CanCall(c)
    /\ \E cd \in ViewCards(hook[c].columns), t \in CardTexts :
         Call(c, [Idle EXCEPT !.pc = "updateCard.update", !.name = "updateCard",
                              !.card = cd.id, !.text = t])

UpdateCardUpdate(c) ==
    LET o == op[c]
    IN  /\ o.pc = "updateCard.update"
        /\ \/ Wrote(c, IF o.card \in DOMAIN store.cards
                       THEN [store EXCEPT !.cards[o.card].title = o.text] ELSE store,
                    IF o.card \in DOMAIN store.cards THEN {"cards"} ELSE {},
                    [o EXCEPT !.pc = "updateCard.log"], ui[c])
           \/ \* updateCard returns false; onSave toasts all the same
              Fail(c, "Failed to update card", "false", [ui[c] EXCEPT !.toast = "card-updated"])

UpdateCardLog(c) ==
    /\ op[c].pc = "updateCard.log"
    /\ LogAndReturn(c, "true", [ui[c] EXCEPT !.toast = "card-updated"])

(* deleteCard *)

\* the delete button of a card in its column: onDeleteCard = deleteCard
DeleteCardCall(c) ==
    /\ CanCall(c)
    /\ \E cd \in ViewCards(hook[c].columns) :
         Call(c, [Idle EXCEPT !.pc = "deleteCard.delete", !.name = "deleteCard",
                              !.card = cd.id])

DeleteCardDelete(c) ==
    LET o == op[c]
    IN  /\ o.pc = "deleteCard.delete"
        /\ \/ Wrote(c, WithoutCards(store, {o.card} \cap DOMAIN store.cards),
                    IF o.card \in DOMAIN store.cards THEN {"cards"} ELSE {},
                    Done(o, "true"), ui[c])
           \/ Fail(c, "Failed to delete card", "false", ui[c])

(* assignCard *)

AssignCardCall(c) ==
    /\ CanCall(c)
    /\ \E cd \in ViewCards(hook[c].columns), u \in Users :
         Call(c, [Idle EXCEPT !.pc = "assignCard.update", !.name = "assignCard",
                              !.card = cd.id, !.text = u])

AssignCardUpdate(c) ==
    LET o == op[c]
    IN  /\ o.pc = "assignCard.update"
        /\ \/ Wrote(c, IF o.card \in DOMAIN store.cards
                       THEN [store EXCEPT !.cards[o.card].assigned_to = o.text] ELSE store,
                    IF o.card \in DOMAIN store.cards THEN {"cards"} ELSE {},
                    [o EXCEPT !.pc = "assignCard.log"], ui[c])
           \/ \* assignCard returns false; onAssign toasts all the same
              Fail(c, "Failed to assign card", "false", [ui[c] EXCEPT !.toast = "assigned"])

AssignCardLog(c) ==
    /\ op[c].pc = "assignCard.log"
    /\ LogAndReturn(c, "true", [ui[c] EXCEPT !.toast = "assigned"])

(* reorderColumns: exported by the hook, called by no component *)

ReorderColumnsCall(c) ==
    /\ CanCall(c)
    /\ \E i \in DOMAIN hook[c].columns, p \in Positions :
         Call(c, [Idle EXCEPT !.pc = "reorderColumns.update", !.name = "reorderColumns",
                              !.col = hook[c].columns[i].id, !.pos = p])

ReorderColumnsUpdate(c) ==
    LET o == op[c]
    IN  /\ o.pc = "reorderColumns.update"
        /\ \/ Wrote(c, IF o.col \in DOMAIN store.columns
                       THEN [store EXCEPT !.columns[o.col].position = o.pos] ELSE store,
                    IF o.col \in DOMAIN store.columns THEN {"columns"} ELSE {},
                    Done(o, "true"), ui[c])
           \/ Fail(c, "Failed to reorder column", "false", ui[c])

-----------------------------------------------------------------------------
(* Comments and attachments: fetchBoard() is called and not awaited.       *)

\* The store call was accepted (as in Wrote); fetchBoard(); return r
WroteAndFetch(c, st, tbls, r) ==
    /\ CanFetch(c, "bg")
    /\ store' = st
    /\ pending' = Notified(pending, tbls)
    /\ hist' = [hist EXCEPT ![c].dirty = FALSE]
    /\ SetClient(c, FetchCalled(hook[c]), [fetches[c] EXCEPT !.bg = NewFetch],
                 Done(op[c], r), ui[c])
    /\ UNCHANGED opsLeft

(* addComment *)

AddCommentCall(c) ==
    /\ CanCall(c)
    /\ \E cd \in ViewCards(hook[c].columns) :
         Call(c, [Idle EXCEPT !.pc = "addComment.insert", !.name = "addComment",
                              !.card = cd.id])

AddCommentInsert(c) ==
    LET o == op[c]
        id == store.seq.comments + 1
    IN  /\ o.pc = "addComment.insert"
        /\ \/ /\ o.card \in DOMAIN store.cards
              /\ Wrote(c, [store EXCEPT !.comments = @ @@ (id :> [card_id |-> o.card]),
                                        !.seq.comments = id],
                       {"comments"}, [o EXCEPT !.pc = "addComment.log"], ui[c])
           \/ \* setError, then throw error
              Fail(c, "Failed to add comment", "throw", ui[c])

AddCommentLog(c) ==
    /\ op[c].pc = "addComment.log"
    /\ \E ok \in BOOLEAN :
         WroteAndFetch(c, IF ok THEN [store EXCEPT !.activities = @ + 1] ELSE store,
                       IF ok THEN {"activities"} ELSE {}, "void")

(* deleteComment *)

DeleteCommentCall(c) ==
    /\ CanCall(c)
    /\ \E cd \in ViewCards(hook[c].columns) : \E m \in cd.comments :
         Call(c, [Idle EXCEPT !.pc = "deleteComment.delete", !.name = "deleteComment",
                              !.att = m])

DeleteCommentDelete(c) ==
    LET o == op[c]
    IN  /\ o.pc = "deleteComment.delete"
        /\ \/ WroteAndFetch(c, [store EXCEPT !.comments = Remove(@, {o.att})],
                            IF o.att \in DOMAIN store.comments THEN {"comments"} ELSE {},
                            "void")
           \/ Fail(c, "Failed to delete comment", "throw", ui[c])

(* uploadAttachment *)

UploadAttachmentCall(c) ==
    /\ CanCall(c)
    /\ \E cd \in ViewCards(hook[c].columns) :
         Call(c, [Idle EXCEPT !.pc = "upload.storage", !.name = "uploadAttachment",
                              !.card = cd.id])

\* supabase.storage.from('kanban-files').upload(storagePath, file) answers
UploadAttachmentStorage(c) ==
    LET o == op[c]
        path == store.seq.files + 1
    IN  /\ o.pc = "upload.storage"
        /\ \/ Wrote(c, [store EXCEPT !.files = @ \cup {path}, !.seq.files = path], {},
                    [o EXCEPT !.pc = "upload.insert", !.pos = path, !.calls = 1], ui[c])
           \/ Fail(c, "Failed to upload attachment", "false", ui[c])

\* db.attachments().insert({card_id, ..., storage_path}) answers
UploadAttachmentInsert(c) ==
    LET o == op[c]
        id == store.seq.attachments + 1
    IN  /\ o.pc = "upload.insert"
        /\ \/ /\ o.card \in DOMAIN store.cards
              /\ Wrote(c, [store EXCEPT !.attachments = @ @@ (id :> AttachmentRow(o.card, o.pos)),
                                        !.seq.attachments = id],
                       {"attachments"}, [o EXCEPT !.pc = "upload.log"], ui[c])
           \/ Fail(c, "Failed to upload attachment", "false", ui[c])

UploadAttachmentLog(c) ==
    /\ op[c].pc = "upload.log"
    /\ \E ok \in BOOLEAN :
         WroteAndFetch(c, IF ok THEN [store EXCEPT !.activities = @ + 1] ELSE store,
                       IF ok THEN {"activities"} ELSE {}, "true")

(* deleteAttachment *)

DeleteAttachmentCall(c) ==
    /\ CanCall(c)
    /\ \E cd \in ViewCards(hook[c].columns) : \E a \in cd.attachments :
         Call(c, [Idle EXCEPT !.pc = "delAtt.storage", !.name = "deleteAttachment",
                              !.att = a.id, !.pos = a.storage_path])

\* supabase.storage.from('kanban-files').remove([storagePath]) answers
DeleteAttachmentStorage(c) ==
    LET o == op[c]
    IN  /\ o.pc = "delAtt.storage"
        /\ \/ Wrote(c, [store EXCEPT !.files = @ \ {o.pos}], {},
                    [o EXCEPT !.pc = "delAtt.delete", !.calls = 1], ui[c])
           \/ Fail(c, "Failed to delete attachment", "false", ui[c])

\* db.attachments().delete().eq('id', attachmentId) answers
DeleteAttachmentDelete(c) ==
    LET o == op[c]
    IN  /\ o.pc = "delAtt.delete"
        /\ \/ Wrote(c, [store EXCEPT !.attachments = Remove(@, {o.att})],
                    IF o.att \in DOMAIN store.attachments THEN {"attachments"} ELSE {},
                    [o EXCEPT !.pc = "delAtt.log"], ui[c])
           \/ Fail(c, "Failed to delete attachment", "false", ui[c])

DeleteAttachmentLog(c) ==
    /\ op[c].pc = "delAtt.log"
    /\ LogAndReturn(c, "true", ui[c])

-----------------------------------------------------------------------------
(* The handlers of Board that write to the store themselves.  They do not  *)
(* touch the hook's error and call no fetchBoard.                          *)

\* The store call returned an error that the handler does not report to the hook.
Ignored(c, r, u) ==
    /\ SetClient(c, hook[c], fetches[c], Done(op[c], r), u)
    /\ hist' = [hist EXCEPT ![c].errors = @ + 1]
    /\ UNCHANGED <<store, pending, opsLeft>>

\* a label of the card modal: onToggleLabel -> handleToggleLabel
ToggleLabelCall(c) ==
    /\ CanCall(c)
    /\ \E cd \in ViewCards(hook[c].columns), l \in LabelIds :
         Call(c, [Idle EXCEPT !.pc = "label.write", !.name = "handleToggleLabel",
                              !.card = cd.id, !.att = l, !.flag = l \in cd.labels])

\* hasLabel ? db.cardLabels().delete()... : db.cardLabels().insert(...)
ToggleLabelWrite(c) ==
    LET o == op[c]
        pair == <<o.card, o.att>>
    IN  /\ o.pc = "label.write"
        /\ \/ /\ ~o.flag => (o.card \in DOMAIN store.cards /\ pair \notin store.cardLabels)
              /\ Wrote(c, [store EXCEPT !.cardLabels = IF o.flag THEN @ \ {pair}
                                                        ELSE @ \cup {pair}],
                       {"card_labels"}, Done(o, "void"), ui[c])
           \/ Ignored(c, "void", ui[c])

\* the subtask form of the card modal: handleAddSubtask
AddSubtaskCall(c) ==
    /\ CanCall(c)
    /\ \E cd \in ViewCards(hook[c].columns) :
         Call(c, [Idle EXCEPT !.pc = "addSubtask.insert", !.name = "handleAddSubtask",
                              !.card = cd.id])

\* db.subtasks().insert({card_id, title, position: 0}) answers
AddSubtaskInsert(c) ==
    LET o == op[c]
        id == store.seq.subtasks + 1
    IN  /\ o.pc = "addSubtask.insert"
        /\ \/ /\ o.card \in DOMAIN store.cards
              /\ Wrote(c, [store EXCEPT !.subtasks = @ @@ (id :> SubtaskRow(o.card, FALSE)),
                                        !.seq.subtasks = id],
                       {"subtasks"}, Done(o, "data"), ui[c])
           \/ Ignored(c, "null", [ui[c] EXCEPT !.toast = "subtask-failed"])

\* the delete button of a subtask: handleDeleteSubtask
DeleteSubtaskCall(c) ==
    /\ CanCall(c)
    /\ \E cd \in ViewCards(hook[c].columns) : \E x \in cd.subtasks :
         Call(c, [Idle EXCEPT !.pc = "delSubtask.delete", !.name = "handleDeleteSubtask",
                              !.sub = x.id])

DeleteSubtaskDelete(c) ==
    LET o == op[c]
    IN  /\ o.pc = "delSubtask.delete"
        /\ \/ Wrote(c, [store EXCEPT !.subtasks = Remove(@, {o.sub})], {"subtasks"},
                    Done(o, "void"), ui[c])
           \/ Ignored(c, "void", ui[c])

-----------------------------------------------------------------------------
(* The state of the Board component (useState) and of the CardModal it     *)
(* mounts for the selected card.                                           *)

LocalInit ==
    [selectedCardId |-> 0,          \* 0: null
     isSearchOpen |-> FALSE,
     isDeadlineOpen |-> FALSE,
     isAddingColumn |-> FALSE,
     title |-> "",                  \* CardModal: the draft
     selectedLabelIds |-> {},
     hasUnsavedChanges |-> FALSE,
     awaiting |-> "none",           \* the handler of the modal that awaits a mutation
     phase |-> "closed",            \* history: closed, editing, saving, saved, cancelled, escaped
     atOpen |-> <<>>,               \* history: the store when the modal was opened
     key |-> "none"]                \* history: the last input was this key

-----------------------------------------------------------------------------
(* AuthProvider state.  One person, "ann", uses the browser; "null" is no  *)
(* user.  Organization 1 belongs to somebody else and may invite ann.      *)

NoUser == "null"
InvitingOrg == 1

\* a call of checkOnboarding or refreshOrganizations in flight
NoRun == [pc |-> "none", ids |-> {}, err |-> FALSE]

AuthInit ==
    [user |-> NoUser,
     profile |-> "null",            \* null, noname (full_name empty), named
     organizations |-> {},
     currentOrg |-> 0,              \* 0: null
     loading |-> TRUE,
     needsOnboarding |-> FALSE,
     initAuth |-> "getSession",     \* getSession, done
     check |-> [k \in {1} |-> NoRun],           \* checkOnboarding runs
     refresh |-> [k \in {"effect", "awaited"} |-> NoRun],   \* refreshOrganizations runs
     profileRead |-> FALSE,         \* refreshProfile is waiting for its answer
     create |-> "none",             \* createOrganization: none, insertOrg, insertMember, refresh
     callback |-> "none",           \* AuthCallback.handleInvite: none, insert, refresh
     eventsLeft |-> 0,              \* session events still allowed (model bound)
     invited |-> FALSE,             \* history: completeOnboarding ran after the invite insert
     lastCheck |-> "none",          \* history: the last checkOnboarding run: none, right, wrong
     lastRefresh |-> "none"]        \* history: the last refreshOrganizations run: none, all, missing

AcctInit ==
    [session |-> NoUser,            \* the session supabase.auth holds
     fullName |-> FALSE,            \* profiles.full_name is set
     orgs |-> {InvitingOrg},        \* organizations
     owned |-> {},                  \* those with owner_id = ann
     members |-> {},                \* organization_members rows of ann, by org
     boards |-> FALSE]              \* ann owns a board

NavInit ==
    [location |-> "/",
     requested |-> "/",             \* history: the location the guards started from
     redirects |-> 0,               \* history: Navigates since then
     processing |-> TRUE,           \* AuthCallback's useState(true)
     handled |-> FALSE,             \* AuthCallback's effect has run handleInvite
     invite |-> FALSE]              \* the url carries invited_to

\* useTheme's useState initializer: the stored theme, else the system preference
InitialTheme(stored, systemDark) ==
    IF stored \in {"dark", "light"} THEN stored
    ELSE IF systemDark THEN "dark" ELSE "light"

\* a mounted useTheme: its theme, and whether its mount effect has registered the
\* listener of the system preference
Mounted(stored, systemDark) ==
    [theme |-> InitialTheme(stored, systemDark),
     listening |-> stored = "null",
     overridden |-> FALSE]       \* history: a system change replaced a manual theme

ThemeInit(stored, systemDark) ==
    [tabs |-> [c \in Clients |-> Mounted(stored, systemDark)],
     stored |-> stored,          \* localStorage 'kanban-theme': null, dark, light
     systemDark |-> systemDark,  \* (prefers-color-scheme: dark) matches
     manual |-> FALSE,           \* history: toggleTheme or setTheme was called
     last |-> "none"]            \* history: the tab whose toggleTheme or setTheme ran last

\* DEFAULT_FILTER_STATE; texts are sequences of characters
DEFAULT_FILTER_STATE ==
    [searchQuery |-> <<>>, labels |-> {}, priorities |-> {}, dateFilter |-> "all"]

FilterInit ==
    [columns |-> <<>>, filterState |-> DEFAULT_FILTER_STATE, filteredColumns |-> <<>>,
     zone |-> 0,        \* offset of the browser's time zone from UTC, in hours
     now |-> 0]         \* the clock, in hours since the epoch

MaxOtherWrites == 1

OtherInit ==
    [left |-> 0,                                \* changes still allowed (model bound)
     notice |-> [c \in Clients |-> {}],         \* tables whose change is to be notified
     fetched |-> [c \in Clients |-> FALSE]]     \* history: such a notice called fetchBoard

\* The variables that the board specifications leave alone.
Elsewhere == <<local, auth, acct, nav, themeState, other, filterView>>
ElsewhereInit ==
    /\ local = [c \in Clients |-> LocalInit]
    /\ auth = AuthInit
    /\ acct = AcctInit
    /\ nav = NavInit
    /\ themeState = ThemeInit("null", FALSE)
    /\ other = OtherInit
    /\ filterView = FilterInit

-----------------------------------------------------------------------------
Init ==
    /\ store \in SeedStores
    /\ hook = [c \in Clients |-> IF c = "u1" THEN [HookInit EXCEPT !.mounted = TRUE]
                                 ELSE HookInit]
    /\ fetches = [c \in Clients |->
                    [op |-> NoFetch, bg |-> IF c = "u1" THEN NewFetch ELSE NoFetch]]
    /\ op = [c \in Clients |-> Idle]
    /\ pending = [c \in Clients |-> FALSE]
    /\ ui = [c \in Clients |-> UiInit]
    /\ opsLeft = MaxOps
    /\ hist = [c \in Clients |-> HistInit]
    /\ ElsewhereInit

Next ==
    /\ UNCHANGED Elsewhere
    /\ \E c \in Clients :
           \/ FetchBoardRow(c)
           \/ FetchColumns(c)
           \/ FetchCards(c)
           \/ FetchDetails(c)
           \/ Deliver(c)
           \/ MoveCall(c)
           \/ MoveUpdate(c)
           \/ MoveLog(c)
           \/ ToggleCall(c)
           \/ ToggleUpdate(c)
           \/ AddColumnCall(c)
           \/ AddColumnInsert(c)
           \/ UpdateColumnCall(c)
           \/ UpdateColumnUpdate(c)
           \/ DeleteColumnCall(c)
           \/ DeleteColumnDelete(c)
           \/ AddCardCall(c)
           \/ AddCardInsert(c)
           \/ AddCardLog(c)
           \/ UpdateCardCall(c)
           \/ UpdateCardUpdate(c)
           \/ UpdateCardLog(c)
           \/ DeleteCardCall(c)
           \/ DeleteCardDelete(c)
           \/ AssignCardCall(c)
           \/ AssignCardUpdate(c)
           \/ AssignCardLog(c)
           \/ AddCommentCall(c)
           \/ AddCommentInsert(c)
           \/ AddCommentLog(c)
           \/ DeleteCommentCall(c)
           \/ DeleteCommentDelete(c)
           \/ UploadAttachmentCall(c)
           \/ UploadAttachmentStorage(c)
           \/ UploadAttachmentInsert(c)
           \/ UploadAttachmentLog(c)
           \/ DeleteAttachmentCall(c)
           \/ DeleteAttachmentStorage(c)
           \/ DeleteAttachmentDelete(c)
           \/ DeleteAttachmentLog(c)
           \/ ToggleLabelCall(c)
           \/ ToggleLabelWrite(c)
           \/ AddSubtaskCall(c)
           \/ AddSubtaskInsert(c)
           \/ DeleteSubtaskCall(c)
           \/ DeleteSubtaskDelete(c)

Spec == Init /\ [][Next]_vars

\* The hook as an API: reorderColumns is exported and has no caller in the ui.
NextApi ==
    \/ Next
    \/ /\ UNCHANGED Elsewhere
       /\ \E c \in Clients :
             \/ ReorderColumnsCall(c)
             \/ ReorderColumnsUpdate(c)

SpecApi == Init /\ [][NextApi]_vars

\* Two users on the same board, both with the board loaded, moving cards
\* and working on subtasks, in the time before a change notification arrives.
LoadedColumns(st) ==
    LET cols == CHOOSE o \in OrderedBy(DOMAIN st.columns,
                                       [k \in DOMAIN st.columns |-> st.columns[k].position]) : TRUE
        cards == CHOOSE o \in OrderedBy(DOMAIN st.cards,
                                        [k \in DOMAIN st.cards |-> st.cards[k].position]) : TRUE
    IN  Compose(st,
                [j \in DOMAIN cols |->
                    [id |-> cols[j], title |-> st.columns[cols[j]].title,
                     position |-> st.columns[cols[j]].position,
                     wip_limit |-> st.columns[cols[j]].wip_limit]],
                [j \in DOMAIN cards |->
                    [id |-> cards[j], column_id |-> st.cards[cards[j]].column_id,
                     position |-> st.cards[cards[j]].position,
                     title |-> st.cards[cards[j]].title,
                     assigned_to |-> st.cards[cards[j]].assigned_to]],
                TRUE, TRUE)

InitTwo ==
    /\ store \in SeedStores
    /\ hook = [c \in Clients |->
                 [mounted |-> TRUE, board |-> "b1", columns |-> LoadedColumns(store),
                  loading |-> FALSE, error |-> NoError]]
    /\ fetches = [c \in Clients |-> [op |-> NoFetch, bg |-> NoFetch]]
    /\ op = [c \in Clients |-> Idle]
    /\ pending = [c \in Clients |-> FALSE]
    /\ ui = [c \in Clients |-> UiInit]
    /\ opsLeft = MaxOpsTwo
    /\ hist = [c \in Clients |-> HistInit]
    /\ ElsewhereInit

NextTwo ==
    /\ UNCHANGED Elsewhere
    /\ \E c \in Clients :
           \/ FetchBoardRow(c)
           \/ FetchColumns(c)
           \/ FetchCards(c)
           \/ FetchDetails(c)
           \/ MoveCall(c)
           \/ MoveUpdate(c)
           \/ MoveLog(c)
           \/ ToggleCall(c)
           \/ ToggleUpdate(c)
           \/ AddSubtaskCall(c)
           \/ AddSubtaskInsert(c)

SpecTwo == InitTwo /\ [][NextTwo]_vars

-----------------------------------------------------------------------------
(* The Board component with its windows and the card modal.  The mutations *)
(* here are the ones the modal's draft fields and labels lead to.          *)

\* findCard(id): the cards of the columns with this id
FindCard(cols, id) == {cd \in ViewCards(cols) : cd.id = id}

\* {selectedCard && <CardModal .../>}, past Board's early returns
ModalShown(c) ==
    /\ Rendered(c)
    /\ local[c].selectedCardId # 0
    /\ FindCard(hook[c].columns, local[c].selectedCardId) # {}

\* CardModal's useState initialisers and its effect on [isOpen, card]
DraftOf(l, cd) ==
    [l EXCEPT !.title = cd.title, !.selectedLabelIds = cd.labels,
              !.hasUnsavedChanges = FALSE]

SetLocal(c, l) ==
    /\ local' = [local EXCEPT ![c] = l]
    /\ UNCHANGED <<boardVars, auth, acct, nav, themeState, other, filterView>>

\* handleCardSelect(cardId): a click on a card of the board
OpenCard(c) ==
    /\ Rendered(c)
    /\ local[c].awaiting = "none"
    /\ \E cd \in ViewCards(hook[c].columns) :
         SetLocal(c, [DraftOf(local[c], cd) EXCEPT
                        !.selectedCardId = cd.id, !.isSearchOpen = FALSE,
                        !.phase = "editing", !.atOpen = store, !.key = "none"])

\* handleChange('title', value)
EditTitle(c) ==
    /\ ModalShown(c)
    /\ local[c].awaiting = "none"
    /\ \E t \in CardTexts :
         SetLocal(c, [local[c] EXCEPT !.title = t, !.hasUnsavedChanges = TRUE,
                                      !.key = "none"])

\* CardModal.handleToggleLabel(labelId) up to its await: onToggleLabel ->
\* findCard -> Board.handleToggleLabel(cardId, labelId, card.labels)
ModalToggleLabel(c) ==
    /\ ModalShown(c)
    /\ local[c].awaiting = "none"
    /\ CanCall(c)
    /\ \E l \in LabelIds :
         LET cd == CHOOSE x \in FindCard(hook[c].columns, local[c].selectedCardId) : TRUE
         IN  /\ Call(c, [Idle EXCEPT !.pc = "label.write", !.name = "handleToggleLabel",
                                     !.card = cd.id, !.att = l, !.flag = l \in cd.labels])
             /\ local' = [local EXCEPT ![c].hasUnsavedChanges = TRUE,
                                       ![c].awaiting = "label", ![c].key = "none"]
             /\ UNCHANGED <<auth, acct, nav, themeState, other, filterView>>

\* handleSave: onSave(card.id, {title, ...}) if a field differs from the card,
\* then setHasUnsavedChanges(false); onClose()
Save(c) ==
    LET cd == CHOOSE x \in FindCard(hook[c].columns, local[c].selectedCardId) : TRUE
    IN  /\ ModalShown(c)
        /\ local[c].awaiting = "none"
        /\ IF local[c].title # cd.title
           THEN /\ CanCall(c)
                /\ Call(c, [Idle EXCEPT !.pc = "updateCard.update", !.name = "updateCard",
                                        !.card = cd.id, !.text = local[c].title])
                /\ local' = [local EXCEPT ![c].awaiting = "save", ![c].phase = "saving",
                                          ![c].key = "none"]
                /\ UNCHANGED <<auth, acct, nav, themeState, other, filterView>>
           ELSE SetLocal(c, [local[c] EXCEPT !.hasUnsavedChanges = FALSE,
                                             !.selectedCardId = 0, !.phase = "saved",
                                             !.key = "none"])

\* handleCancel: window.confirm if there are unsaved changes, then onClose()
Cancel(c) ==
    /\ ModalShown(c)
    /\ local[c].awaiting = "none"
    /\ \E confirmed \in BOOLEAN :
         IF local[c].hasUnsavedChanges /\ ~confirmed
         THEN SetLocal(c, [local[c] EXCEPT !.key = "none"])
         ELSE SetLocal(c, [local[c] EXCEPT !.selectedCardId = 0, !.phase = "cancelled",
                                           !.key = "none"])

\* the windows of the board: search (button or Ctrl+K), deadline tracker,
\* add-column form, and their own close buttons
SetWindow(c) ==
    /\ Rendered(c)
    /\ \E w \in {"isSearchOpen", "isDeadlineOpen", "isAddingColumn"} :
         SetLocal(c, [local[c] EXCEPT ![w] = ~@, !.key = "none"])

\* useKeyboardShortcuts: Escape -> onEscape
Escape(c) ==
    /\ hook[c].mounted
    /\ SetLocal(c, [local[c] EXCEPT
                      !.selectedCardId = 0, !.isSearchOpen = FALSE,
                      !.isAddingColumn = FALSE, !.key = "Escape",
                      !.phase = IF @ \in {"editing", "saving"} /\ local[c].selectedCardId # 0
                                THEN "escaped" ELSE @])

\* A step of the hook seen from the Board component: the handler that awaited
\* the mutation goes on when it has returned, and CardModal takes the card's
\* values again when it is mounted anew or gets a new card object (setColumns).
LocalAfter(c) ==
    LET l == local[c]
        returned == op[c].pc # "done" /\ op'[c].pc = "done" /\ l.awaiting # "none"
        l1 == IF ~returned THEN l
              ELSE IF l.awaiting = "save"
                   THEN [l EXCEPT !.awaiting = "none", !.hasUnsavedChanges = FALSE,
                                  !.selectedCardId = 0, !.phase = "saved"]
                   ELSE [l EXCEPT !.awaiting = "none",
                                  !.selectedLabelIds =
                                      IF op[c].att \in @ THEN @ \ {op[c].att}
                                      ELSE @ \cup {op[c].att}]
        setColumns == \E sl \in FetchSlots :
                         fetches[c][sl].stage = "details" /\ fetches'[c][sl].stage = "none"
        found == FindCard(hook'[c].columns, l1.selectedCardId)
        shown == /\ ~hook'[c].loading /\ hook'[c].error = NoError
                 /\ hook'[c].board # NoBoard /\ l1.selectedCardId # 0 /\ found # {}
    IN  IF shown /\ (~ModalShown(c) \/ setColumns)
        THEN DraftOf(l1, CHOOSE x \in found : TRUE)
        ELSE l1

HookStep(c) ==
    \/ FetchBoardRow(c)
    \/ FetchColumns(c)
    \/ FetchCards(c)
    \/ FetchDetails(c)
    \/ Deliver(c)
    \/ ToggleLabelWrite(c)
    \/ UpdateCardUpdate(c)
    \/ UpdateCardLog(c)

InitModal ==
    /\ store \in SeedStores
    /\ hook = [c \in Clients |->
                 IF c = "u1"
                 THEN [mounted |-> TRUE, board |-> "b1", columns |-> LoadedColumns(store),
                       loading |-> FALSE, error |-> NoError]
                 ELSE HookInit]
    /\ fetches = [c \in Clients |-> [op |-> NoFetch, bg |-> NoFetch]]
    /\ op = [c \in Clients |-> Idle]
    /\ pending = [c \in Clients |-> FALSE]
    /\ ui = [c \in Clients |-> UiInit]
    /\ opsLeft = MaxOps
    /\ hist = [c \in Clients |-> HistInit]
    /\ ElsewhereInit

NextModal ==
    \E c \in Clients :
        \/ /\ HookStep(c)
           /\ local' = [local EXCEPT ![c] = LocalAfter(c)]
           /\ UNCHANGED <<auth, acct, nav, themeState, other, filterView>>
        \/ OpenCard(c)
        \/ EditTitle(c)
        \/ ModalToggleLabel(c)
        \/ Save(c)
        \/ Cancel(c)
        \/ SetWindow(c)
        \/ Escape(c)

SpecModal == InitModal /\ [][NextModal]_vars

-----------------------------------------------------------------------------
(* Routes and their guards *)

MaxAuthEvents == 1

\* /admin and /settings are guarded as /dashboard is, /old-landing and /register as
\* /login is.
ProtectedPaths == {"/profile-setup", "/onboarding", "/dashboard", "/board/b1"}
PublicPaths == {"/", "/login"}
CallbackPath == "/auth/callback"
Urls == ProtectedPaths \cup PublicPaths \cup {CallbackPath, "/nowhere"}

NeedsProfileSetup(a) == a.user # NoUser /\ a.profile = "noname"

\* What a guard renders: the loader, its outlet, or a Navigate to a path.
ProtectedRoute_noUserCheck(a, location) ==
    IF a.loading THEN "loader"
    ELSE IF NeedsProfileSetup(a) /\ location # "/profile-setup" THEN "/profile-setup"
    ELSE IF a.needsOnboarding /\ location \notin {"/onboarding", "/profile-setup"}
         THEN "/onboarding"
    ELSE "outlet"

ProtectedRoute(a, location) ==
    IF a.loading THEN "loader"
    ELSE IF a.user = NoUser THEN "/login"
    ELSE IF NeedsProfileSetup(a) /\ location # "/profile-setup" THEN "/profile-setup"
    ELSE IF a.needsOnboarding /\ location \notin {"/onboarding", "/profile-setup"}
         THEN "/onboarding"
    ELSE "outlet"

PublicRoute_toLogin(a) ==
    IF a.loading THEN "loader"
    ELSE IF a.user # NoUser THEN "/login"
    ELSE "outlet"

PublicRoute(a) ==
    IF a.loading THEN "loader"
    ELSE IF a.user # NoUser THEN "/dashboard"
    ELSE "outlet"

AuthCallback(a, n) ==
    IF a.loading \/ n.processing THEN "loader"
    ELSE IF a.user # NoUser THEN "/dashboard"
    ELSE "/login"

\* AppRoutes: the element rendered for the location.
AppRoutes(a, n) ==
    IF n.location \in PublicPaths THEN PublicRoute(a)
    ELSE IF n.location = CallbackPath THEN AuthCallback(a, n)
    ELSE IF n.location \in ProtectedPaths THEN ProtectedRoute(a, n.location)
    ELSE "/"

\* what the guards read from the context
GuardInputs(a) == <<a.user, a.loading, a.needsOnboarding, NeedsProfileSetup(a)>>

\* One step of the auth specification: new context, new store rows, new router
\* state.  When the context changes what the guards read, they render again at the
\* location the browser is at, which is then the url to resolve.
AuthStep(a, d, n) ==
    /\ auth' = a
    /\ acct' = d
    /\ nav' = IF GuardInputs(a) = GuardInputs(auth) THEN n
              ELSE [n EXCEPT !.requested = n.location, !.redirects = 0]
    /\ UNCHANGED <<boardVars, local, themeState, other, filterView>>

-----------------------------------------------------------------------------
(* AuthProvider *)

NewRun == [pc |-> "members", ids |-> {}, err |-> FALSE]

FreeCheck(a) == {k \in DOMAIN a.check : a.check[k].pc = "none"}

\* useEffect(..., [user]): refreshProfile and refreshOrganizations
UserEffect(a) ==
    IF a.user = NoUser THEN a
    ELSE [a EXCEPT !.profileRead = TRUE, !.refresh["effect"] = NewRun]

\* useEffect(..., [user, loading]): checkOnboarding
CheckEffect(a) ==
    IF a.loading \/ a.user = NoUser THEN a
    ELSE LET k == CHOOSE k \in FreeCheck(a) : \A j \in FreeCheck(a) : k <= j
         IN  [a EXCEPT !.check[k] = NewRun]

EffectsFree(a) == a.refresh["effect"].pc = "none" /\ FreeCheck(a) # {}

\* initAuth: getSession answers
GetSession ==
    /\ auth.initAuth = "getSession"
    /\ EffectsFree(auth)
    /\ LET a1 == [auth EXCEPT !.initAuth = "done", !.user = acct.session,
                              !.loading = FALSE]
           a2 == IF auth.user # acct.session THEN UserEffect(a1) ELSE a1
       IN  AuthStep(CheckEffect(a2), acct, nav)

\* supabase.auth changes the session (sign in, token refresh, sign out in
\* another tab) and the onAuthStateChange callback runs with it.
OnAuthStateChange ==
    /\ auth.eventsLeft > 0
    /\ \E newSession \in {NoUser, "ann"} :
          /\ newSession # NoUser => EffectsFree(auth)
          /\ ~(newSession = NoUser /\ acct.session = NoUser)
          /\ LET a1 == [auth EXCEPT !.eventsLeft = @ - 1, !.user = newSession]
                 a2 == IF newSession = NoUser
                       THEN [a1 EXCEPT !.profile = "null", !.organizations = {},
                                       !.currentOrg = 0]
                       ELSE CheckEffect(UserEffect(a1))
             IN  AuthStep(a2, [acct EXCEPT !.session = newSession], nav)

SignOut ==
    /\ auth.eventsLeft > 0
    /\ auth.user # NoUser
    /\ AuthStep([auth EXCEPT !.eventsLeft = @ - 1, !.user = NoUser, !.profile = "null",
                             !.organizations = {}, !.currentOrg = 0,
                             !.needsOnboarding = FALSE, !.invited = FALSE],
                [acct EXCEPT !.session = NoUser], nav)

\* refreshProfile: the profiles read answers
RefreshProfile ==
    /\ auth.profileRead
    /\ \E ok \in BOOLEAN :
          AuthStep([auth EXCEPT !.profileRead = FALSE,
                                !.profile = IF ok THEN (IF acct.fullName THEN "named"
                                                        ELSE "noname")
                                            ELSE @],
                   acct, nav)

\* ann has a membership, an organization or a board in the store
HasAny(d) == d.members # {} \/ d.owned # {} \/ d.boards

\* checkOnboarding ends with setNeedsOnboarding(v)
CheckEnds(a, k, v, err) ==
    [a EXCEPT !.check[k] = NoRun, !.needsOnboarding = v,
              !.lastCheck = IF v = ~HasAny(acct) THEN "right" ELSE "wrong"]

CheckGoes(a, k, pc, err) ==
    [a EXCEPT !.check[k].pc = pc]

CheckMemberships(k) ==
    /\ auth.check[k].pc = "members"
    /\ \E err \in BOOLEAN :
          AuthStep(IF ~err /\ acct.members # {} THEN CheckEnds(auth, k, FALSE, err)
                   ELSE CheckGoes(auth, k, "owned", err), acct, nav)

CheckOwnedOrgs(k) ==
    /\ auth.check[k].pc = "owned"
    /\ \E err \in BOOLEAN :
          AuthStep(IF ~err /\ acct.owned # {} THEN CheckEnds(auth, k, FALSE, err)
                   ELSE CheckGoes(auth, k, "boards", err), acct, nav)

CheckBoards(k) ==
    /\ auth.check[k].pc = "boards"
    /\ \E err \in BOOLEAN :
          AuthStep(CheckEnds(auth, k, ~(~err /\ acct.boards), err), acct, nav)

\* what runs after the awaited refreshOrganizations: the rest of
\* createOrganization or of AuthCallback's handleInvite
Continue(a, r) ==
    IF r # "awaited" THEN a
    ELSE IF a.create = "refresh" THEN [a EXCEPT !.create = "none", !.needsOnboarding = FALSE]
    ELSE IF a.callback = "refresh"
         THEN [a EXCEPT !.callback = "none", !.needsOnboarding = FALSE, !.invited = TRUE]
    ELSE a

ContinueNav(a, r, n) ==
    IF r = "awaited" /\ a.create # "refresh" /\ a.callback = "refresh"
    THEN [n EXCEPT !.processing = FALSE]
    ELSE n

\* refreshOrganizations ends with setOrganizations(orgs)
RefreshEnds(r, orgs, err, first) ==
    LET a1 == [auth EXCEPT !.refresh[r] = NoRun, !.organizations = orgs,
                           !.currentOrg = IF @ = 0 /\ orgs # {} THEN first ELSE @,
                           !.lastRefresh =
                               IF (acct.members \cup acct.owned) \cap acct.orgs \subseteq orgs
                               THEN "all"
                               ELSE IF auth.refresh[r].err \/ err THEN "error"
                               ELSE "missing"]
    IN  AuthStep(Continue(a1, r), acct, ContinueNav(auth, r, nav))

RefreshMembers(r) ==
    /\ auth.refresh[r].pc = "members"
    /\ \E err \in BOOLEAN :
          LET orgIds == IF err THEN {} ELSE acct.members
          IN  AuthStep([auth EXCEPT !.refresh[r] =
                            [pc |-> IF orgIds # {} THEN "orgs" ELSE "owned",
                             ids |-> orgIds, err |-> err]],
                       acct, nav)

RefreshOrgsIn(r) ==
    /\ auth.refresh[r].pc = "orgs"
    /\ \E err \in BOOLEAN :
          LET orgs == IF err THEN {} ELSE auth.refresh[r].ids \cap acct.orgs
          IN  \E first \in (IF orgs = {} THEN {0} ELSE orgs) :
                  RefreshEnds(r, orgs, err, first)

RefreshOwned(r) ==
    /\ auth.refresh[r].pc = "owned"
    /\ \E err \in BOOLEAN :
          LET orgs == IF err THEN {} ELSE acct.owned
          IN  \E first \in (IF orgs = {} THEN {0} ELSE orgs) :
                  RefreshEnds(r, orgs, err, first)

NewOrg == 2

\* createOrganization, called by a page behind ProtectedRoute
CreateOrganization ==
    /\ auth.user # NoUser
    /\ auth.create = "none"
    /\ NewOrg \notin acct.orgs
    /\ nav.location \in ProtectedPaths
    /\ ProtectedRoute(auth, nav.location) = "outlet"
    /\ AuthStep([auth EXCEPT !.create = "insertOrg"], acct, nav)

CreateInsertOrg ==
    /\ auth.create = "insertOrg"
    /\ \/ AuthStep([auth EXCEPT !.create = "insertMember"],
                   [acct EXCEPT !.orgs = @ \cup {NewOrg}, !.owned = @ \cup {NewOrg}], nav)
       \/ AuthStep([auth EXCEPT !.create = "none"], acct, nav)

CreateInsertMember ==
    /\ auth.create = "insertMember"
    /\ auth.refresh["awaited"].pc = "none"
    /\ \E ok \in BOOLEAN :
          AuthStep([auth EXCEPT !.create = "refresh", !.refresh["awaited"] = NewRun],
                   [acct EXCEPT !.members = IF ok THEN @ \cup {NewOrg} ELSE @], nav)

\* AuthCallback's effect: handleInvite, or the end of processing without a user
HandleInvite ==
    /\ nav.location = CallbackPath
    /\ ~nav.handled
    /\ ~auth.loading
    /\ auth.callback = "none"
    /\ IF auth.user = NoUser
       THEN /\ nav.processing
            /\ AuthStep(auth, acct, [nav EXCEPT !.processing = FALSE])
       ELSE IF nav.invite
       THEN AuthStep([auth EXCEPT !.callback = "insert"], acct,
                     [nav EXCEPT !.handled = TRUE])
       ELSE AuthStep(auth, acct, [nav EXCEPT !.handled = TRUE, !.processing = FALSE])

CallbackInsert ==
    /\ auth.callback = "insert"
    /\ auth.refresh["awaited"].pc = "none"
    /\ \/ AuthStep([auth EXCEPT !.callback = "refresh", !.refresh["awaited"] = NewRun],
                   [acct EXCEPT !.members = @ \cup {InvitingOrg}], nav)
       \/ AuthStep([auth EXCEPT !.callback = "none"], acct,
                   [nav EXCEPT !.processing = FALSE])

\* The rendered element is a Navigate.
Redirect ==
    /\ AppRoutes(auth, nav) \in Urls
    /\ AuthStep(auth, acct, [nav EXCEPT !.location = AppRoutes(auth, nav),
                                        !.redirects = @ + 1])

InitAuth ==
    /\ store = SeedStore("Doing", "Done", 0, 1, 0, FALSE)
    /\ hook = [c \in Clients |-> HookInit]
    /\ fetches = [c \in Clients |-> [sl \in FetchSlots |-> NoFetch]]
    /\ op = [c \in Clients |-> Idle]
    /\ pending = [c \in Clients |-> {}]
    /\ ui = [c \in Clients |-> UiInit]
    /\ opsLeft = 0
    /\ hist = [c \in Clients |-> HistInit]
    /\ local = [c \in Clients |-> LocalInit]
    /\ themeState = ThemeInit("null", FALSE)
    /\ other = OtherInit
    /\ filterView = FilterInit
    /\ \E s \in {NoUser, "ann"}, n \in BOOLEAN, b \in BOOLEAN :
          acct = [AcctInit EXCEPT !.session = s, !.fullName = n, !.boards = b]
    /\ auth = [AuthInit EXCEPT !.eventsLeft = MaxAuthEvents]
    /\ \E url \in Urls, invite \in BOOLEAN :
          /\ invite => url = CallbackPath
          /\ nav = [NavInit EXCEPT !.requested = url, !.location = url,
                                   !.invite = invite]

NextAuth ==
    \/ GetSession
    \/ OnAuthStateChange
    \/ SignOut
    \/ RefreshProfile
    \/ \E k \in {1} : CheckMemberships(k) \/ CheckOwnedOrgs(k) \/ CheckBoards(k)
    \/ \E r \in {"effect", "awaited"} : RefreshMembers(r) \/ RefreshOrgsIn(r) \/ RefreshOwned(r)
    \/ CreateOrganization
    \/ CreateInsertOrg
    \/ CreateInsertMember
    \/ HandleInvite
    \/ CallbackInsert
    \/ Redirect

SpecAuth == InitAuth /\ [][NextAuth]_vars

-----------------------------------------------------------------------------
(* useTheme.  Each client is a tab of one browser: the tabs share localStorage *)
(* and the system preference, and each has its own hook state.              *)

Themes == {"dark", "light"}

SetThemeState(t) ==
    /\ themeState' = t
    /\ UNCHANGED <<boardVars, local, auth, acct, nav, other, filterView>>

ToggleTheme(c) ==
    LET newTheme == IF themeState.tabs[c].theme = "dark" THEN "light" ELSE "dark"
    IN  SetThemeState([themeState EXCEPT !.tabs[c].theme = newTheme,
                                         !.stored = newTheme,
                                         !.manual = TRUE, !.last = c])

SetTheme(c) ==
    \E newTheme \in Themes :
        SetThemeState([themeState EXCEPT !.tabs[c].theme = newTheme,
                                         !.stored = newTheme,
                                         !.manual = TRUE, !.last = c])

\* handleChange of a tab that registered its listener
HandleChange(tab, matches, manual) ==
    IF ~tab.listening THEN tab
    ELSE LET t == IF matches THEN "dark" ELSE "light"
         IN  [tab EXCEPT !.theme = t,
                         !.overridden = @ \/ (manual /\ t # tab.theme)]

\* The system colour-scheme preference changes: every registered listener runs.
SystemChange ==
    LET matches == ~themeState.systemDark
    IN  SetThemeState([themeState EXCEPT
            !.systemDark = matches,
            !.tabs = [c \in Clients |-> HandleChange(themeState.tabs[c], matches,
                                                     themeState.manual)],
            !.last = "none"])

\* The tab is reloaded: the hook mounts again.
Reload(c) ==
    SetThemeState([themeState EXCEPT
            !.tabs[c] = Mounted(themeState.stored, themeState.systemDark),
            !.last = "none"])

InitTheme ==
    /\ store = SeedStore("Doing", "Done", 0, 1, 0, FALSE)
    /\ hook = [c \in Clients |-> HookInit]
    /\ fetches = [c \in Clients |-> [sl \in FetchSlots |-> NoFetch]]
    /\ op = [c \in Clients |-> Idle]
    /\ pending = [c \in Clients |-> {}]
    /\ ui = [c \in Clients |-> UiInit]
    /\ opsLeft = 0
    /\ hist = [c \in Clients |-> HistInit]
    /\ local = [c \in Clients |-> LocalInit]
    /\ auth = AuthInit
    /\ acct = AcctInit
    /\ nav = NavInit
    /\ \E stored \in {"null"} \cup Themes, systemDark \in BOOLEAN :
          themeState = ThemeInit(stored, systemDark)
    /\ other = OtherInit
    /\ filterView = FilterInit

NextTheme ==
    \/ \E c \in Clients : ToggleTheme(c) \/ SetTheme(c) \/ Reload(c)
    \/ SystemChange

SpecTheme == InitTheme /\ [][NextTheme]_vars

-----------------------------------------------------------------------------
(* The channel of useBoard and rows of another board *)

BoardTables == {"columns", "cards", "subtasks", "attachments", "comments", "activities"}

\* the filter of each .on(...) of the channel: "board" is board_id=eq.boardId
ChannelFilter(tbl) == IF tbl = "columns" THEN "board" ELSE "none"

\* the channel of a board passes a change of a row of tbl
ChannelPasses(tbl, sameBoard) ==
    /\ tbl \in SubscribedTables
    /\ ChannelFilter(tbl) = "board" => sameBoard

\* Somebody changes a row of tbl that belongs to another board.
OtherBoardWrite ==
    /\ other.left > 0
    /\ \E tbl \in BoardTables :
          other' = [other EXCEPT
                      !.left = @ - 1,
                      !.notice = [c \in Clients |->
                                    IF hook[c].mounted /\ ChannelPasses(tbl, FALSE)
                                    THEN @[c] \cup {tbl} ELSE @[c]]]
    /\ UNCHANGED <<boardVars, local, auth, acct, nav, themeState, filterView>>

\* The notification of such a change arrives: () => fetchBoard()
DeliverOther(c) ==
    /\ hook[c].mounted
    /\ other.notice[c] # {}
    /\ CanFetch(c, "bg")
    /\ other' = [other EXCEPT !.notice[c] = {}, !.fetched[c] = TRUE]
    /\ hook' = [hook EXCEPT ![c] = FetchCalled(@)]
    /\ fetches' = [fetches EXCEPT ![c].bg = NewFetch]
    /\ hist' = [hist EXCEPT ![c].dirty = FALSE]
    /\ UNCHANGED <<store, op, pending, ui, opsLeft, local, auth, acct, nav, themeState, filterView>>

InitOther ==
    /\ store \in SeedStores
    /\ hook = [c \in Clients |-> IF c = "u1" THEN [HookInit EXCEPT !.mounted = TRUE]
                                 ELSE HookInit]
    /\ fetches = [c \in Clients |->
                    [op |-> NoFetch, bg |-> IF c = "u1" THEN NewFetch ELSE NoFetch]]
    /\ op = [c \in Clients |-> Idle]
    /\ pending = [c \in Clients |-> FALSE]
    /\ ui = [c \in Clients |-> UiInit]
    /\ opsLeft = MaxOps
    /\ hist = [c \in Clients |-> HistInit]
    /\ local = [c \in Clients |-> LocalInit]
    /\ auth = AuthInit
    /\ acct = AcctInit
    /\ nav = NavInit
    /\ themeState = ThemeInit("null", FALSE)
    /\ other = [OtherInit EXCEPT !.left = MaxOtherWrites]
    /\ filterView = FilterInit

NextOther ==
    \/ OtherBoardWrite
    \/ \E c \in Clients :
        \/ DeliverOther(c)
        \/ /\ UNCHANGED <<local, auth, acct, nav, themeState, other, filterView>>
           /\ \/ FetchBoardRow(c) \/ FetchColumns(c) \/ FetchCards(c) \/ FetchDetails(c)
              \/ Deliver(c)
              \/ MoveCall(c) \/ MoveUpdate(c) \/ MoveLog(c)

SpecOther == InitOther /\ [][NextOther]_vars

-----------------------------------------------------------------------------
(* Arrow navigation with every card id and both directions *)

Directions == {"left", "right"}

Step(direction) == IF direction = "left" THEN -1 ELSE 1

\* targetColumnIndex of handleMoveCardToColumn, 0 where the handler returns early
TargetColumnIndex_noEdgeCheck(cols, cardId, direction) ==
    LET currentColumnIndex == ColumnIndexOfCard(cols, cardId)
    IN  IF currentColumnIndex = 0 THEN 0
        ELSE IF currentColumnIndex + Step(direction) \in DOMAIN cols
             THEN currentColumnIndex + Step(direction)
             ELSE currentColumnIndex

TargetColumnIndex(cols, cardId, direction) ==
    LET currentColumnIndex == ColumnIndexOfCard(cols, cardId)
    IN  IF currentColumnIndex = 0 THEN 0
        ELSE IF currentColumnIndex + Step(direction) \in DOMAIN cols
             THEN currentColumnIndex + Step(direction)
             ELSE 0

\* handleMoveCardToColumn(cardId, direction), for a card id of the store or one
\* that no column holds
HandleMoveCardToColumn(c) ==
    /\ CanCall(c)
    /\ \E cardId \in 1 .. (store.seq.cards + 1), direction \in Directions :
          LET t == TargetColumnIndex(hook[c].columns, cardId, direction)
              o == [Idle EXCEPT !.name = "moveCard", !.via = "arrow", !.card = cardId,
                                !.text = direction]
          IN  IF t = 0
              THEN Call(c, [o EXCEPT !.pc = "done", !.ret = "undefined"])
              ELSE Call(c, [o EXCEPT !.pc = "move.update",
                                     !.col = hook[c].columns[t].id, !.pos = 0])

NextArrow ==
    /\ UNCHANGED Elsewhere
    /\ \E c \in Clients :
           \/ FetchBoardRow(c)
           \/ FetchColumns(c)
           \/ FetchCards(c)
           \/ FetchDetails(c)
           \/ HandleMoveCardToColumn(c)
           \/ MoveUpdate(c)
           \/ MoveLog(c)

SpecArrow == InitTwo /\ [][NextArrow]_vars

-----------------------------------------------------------------------------
(* Two loaded clients, card moves, and the notifications of their writes.   *)
(* To keep the state space small the notifications of client u2 stay on     *)
(* their way: u2 refetches after its own moves only.                         *)

InitSync ==
    /\ store = SeedStore("Doing", "Done", 0, 1, 0, FALSE)
    /\ hook = [c \in Clients |->
                 [mounted |-> TRUE, board |-> "b1", columns |-> LoadedColumns(store),
                  loading |-> FALSE, error |-> NoError]]
    /\ fetches = [c \in Clients |-> [op |-> NoFetch, bg |-> NoFetch]]
    /\ op = [c \in Clients |-> Idle]
    /\ pending = [c \in Clients |-> FALSE]
    /\ ui = [c \in Clients |-> UiInit]
    /\ opsLeft = MaxOpsTwo
    /\ hist = [c \in Clients |-> HistInit]
    /\ ElsewhereInit

NextSync ==
    /\ UNCHANGED Elsewhere
    /\ \E c \in Clients :
           \/ FetchBoardRow(c)
           \/ FetchColumns(c)
           \/ FetchCards(c)
           \/ FetchDetails(c)
           \/ (c = "u1" /\ Deliver(c))
           \/ MoveCall(c)
           \/ MoveUpdate(c)
           \/ MoveLog(c)

SpecSync == InitSync /\ [][NextSync]_vars

-----------------------------------------------------------------------------
(* The card modal of client u1 while client u2 updates a card *)

InitDraft ==
    /\ store \in SeedStores
    /\ hook = [c \in Clients |->
                 [mounted |-> TRUE, board |-> "b1", columns |-> LoadedColumns(store),
                  loading |-> FALSE, error |-> NoError]]
    /\ fetches = [c \in Clients |-> [op |-> NoFetch, bg |-> NoFetch]]
    /\ op = [c \in Clients |-> Idle]
    /\ pending = [c \in Clients |-> FALSE]
    /\ ui = [c \in Clients |-> UiInit]
    /\ opsLeft = MaxOps
    /\ hist = [c \in Clients |-> HistInit]
    /\ ElsewhereInit

NextDraft ==
    \E c \in Clients :
        \/ /\ \/ FetchBoardRow(c) \/ FetchColumns(c) \/ FetchCards(c) \/ FetchDetails(c)
              \/ Deliver(c)
              \/ UpdateCardUpdate(c)
              \/ UpdateCardLog(c)
           /\ local' = [local EXCEPT ![c] = LocalAfter(c)]
           /\ UNCHANGED <<auth, acct, nav, themeState, other, filterView>>
        \/ /\ c = "u2"
           /\ UpdateCardCall(c)
           /\ UNCHANGED Elsewhere
        \/ /\ c = "u1"
           /\ \/ OpenCard(c)
              \/ EditTitle(c)
              \/ Save(c)
              \/ Cancel(c)

SpecDraft == InitDraft /\ [][NextDraft]_vars

-----------------------------------------------------------------------------
(* Board's filteredColumns.  A due_date is the UTC midnight that CardModal   *)
(* writes for the picked day, <<d>> for day d and <<>> for null; a text is a  *)
(* sequence of characters, <<>> for '' and for null.                         *)

HoursPerDay == 24
DaysOfWeekFilter == 7

FilterLabels == {"L1", "L2"}
FilterPriorities == {"low", "high"}
DateFilters == {"all", "today", "week", "overdue", "no-date"}
Queries == {<<>>, <<"d", "o">>, <<"D", "O">>, <<"n", "e">>}
TimeZones == {-5, 3}
Clock == {242, 262}

FilterCard(id, title, description, labels, priority, due) ==
    [id |-> id, title |-> title, description |-> description, labels |-> labels,
     priority |-> priority, due_date |-> due]

FilterColumns ==
    << [id |-> 1,
        cards |-> << FilterCard(1, <<"D", "o", "n", "e">>, <<>>, {"L1"}, "high", <<10>>),
                     FilterCard(2, <<"T", "o">>, <<"D", "O">>, {}, "none", <<>>),
                     FilterCard(3, <<"D", "o">>, <<"n", "o">>, {"L1", "L2"}, "low", <<9>>) >>],
       [id |-> 2,
        cards |-> << FilterCard(4, <<"T", "o">>, <<>>, {"L2"}, "low", <<17>>),
                     FilterCard(5, <<"O", "n", "e">>, <<>>, {}, "high", <<18>>),
                     FilterCard(6, <<"T", "o">>, <<>>, {}, "high", <<11>>) >>] >>

\* new Date(d); d.setHours(0, 0, 0, 0): the local midnight before the instant h
SetHoursZero(h, zone) == ((h + zone) \div HoursPerDay) * HoursPerDay - zone

\* the callback of col.cards.filter
KeepsCard(card, fs, zone, now) ==
    /\ fs.searchQuery # <<>> =>
          LET query == toLowerCase(fs.searchQuery)
              matchTitle == includes(toLowerCase(card.title), query)
              matchDesc == card.description # <<>>
                              /\ includes(toLowerCase(card.description), query)
          IN  matchTitle \/ matchDesc
    /\ fs.labels # {} => fs.labels \cap card.labels # {}
    /\ fs.priorities # {} => card.priority \in fs.priorities
    /\ fs.dateFilter # "all" =>
          IF fs.dateFilter = "no-date" THEN card.due_date = <<>>
          ELSE /\ card.due_date # <<>>
               /\ LET dueDateDay == SetHoursZero(card.due_date[1] * HoursPerDay, zone)
                      today == SetHoursZero(now, zone)
                      nextWeek == today + DaysOfWeekFilter * HoursPerDay
                  IN  CASE fs.dateFilter = "overdue" -> dueDateDay < today
                        [] fs.dateFilter = "today" -> dueDateDay = today
                        [] fs.dateFilter = "week" -> dueDateDay >= today
                                                        /\ dueDateDay <= nextWeek

\* useMemo(() => ..., [columns, filterState])
FilteredColumns(columns, fs, zone, now) ==
    IF fs.searchQuery = <<>> /\ fs.labels = {} /\ fs.priorities = {}
          /\ fs.dateFilter = "all"
    THEN columns
    ELSE [i \in DOMAIN columns |->
            LET Keeps(card) == KeepsCard(card, fs, zone, now)
            IN  [columns[i] EXCEPT !.cards = SelectSeq(@, Keeps)]]

\* onFilterChange(filter): setFilterState, and the memo is computed again
OnFilterChange(fs) ==
    /\ filterView' = [filterView EXCEPT
                         !.filterState = fs,
                         !.filteredColumns = FilteredColumns(filterView.columns, fs,
                                                             filterView.zone,
                                                             filterView.now)]
    /\ UNCHANGED <<boardVars, local, auth, acct, nav, themeState, other>>

HandleSearchChange ==
    \E query \in Queries : OnFilterChange([filterView.filterState EXCEPT !.searchQuery = query])

FilterToggleLabel ==
    \E l \in FilterLabels :
        OnFilterChange([filterView.filterState EXCEPT
                          !.labels = IF l \in @ THEN @ \ {l} ELSE @ \cup {l}])

TogglePriority ==
    \E p \in FilterPriorities :
        OnFilterChange([filterView.filterState EXCEPT
                          !.priorities = IF p \in @ THEN @ \ {p} ELSE @ \cup {p}])

SetDateFilter ==
    \E d \in DateFilters : OnFilterChange([filterView.filterState EXCEPT !.dateFilter = d])

ClearFilters == OnFilterChange(DEFAULT_FILTER_STATE)

InitFilter ==
    /\ store = SeedStore("Doing", "Done", 0, 1, 0, FALSE)
    /\ hook = [c \in Clients |-> HookInit]
    /\ fetches = [c \in Clients |-> [sl \in FetchSlots |-> NoFetch]]
    /\ op = [c \in Clients |-> Idle]
    /\ pending = [c \in Clients |-> FALSE]
    /\ ui = [c \in Clients |-> UiInit]
    /\ opsLeft = 0
    /\ hist = [c \in Clients |-> HistInit]
    /\ local = [c \in Clients |-> LocalInit]
    /\ auth = AuthInit
    /\ acct = AcctInit
    /\ nav = NavInit
    /\ themeState = ThemeInit("null", FALSE)
    /\ other = OtherInit
    /\ \E zone \in TimeZones, now \in Clock :
          filterView = [FilterInit EXCEPT !.columns = FilterColumns,
                                          !.filteredColumns = FilterColumns,
                                          !.zone = zone, !.now = now]

NextFilter ==
    \/ HandleSearchChange
    \/ FilterToggleLabel
    \/ TogglePriority
    \/ SetDateFilter
    \/ ClearFilters

SpecFilter == InitFilter /\ [][NextFilter]_vars

-----------------------------------------------------------------------------
(* Properties *)

\* toggleSubtask has returned
Returned(c) == op[c].pc = "done" /\ op[c].name = "toggleSubtask"

\* The subtask update was accepted in the case where the completion rule applies.
RuleApplies(c) ==
    /\ op[c].name = "toggleSubtask"
    /\ hist[c].toggled
    /\ hist[c].case = "auto"

\* C1, as stated: when toggleSubtask(s, true) is accepted and, in the hook's
\* columns, every other subtask of the card is complete and the first column
\* with a done title is not the card's column, then the card's row has that
\* column and position 0 and toggleSubtask returns the automation message.
C1_AsStated ==
    \A c \in Clients :
        RuleApplies(c) /\ Returned(c)
            => /\ hist[c].moved = "ok"
               /\ hist[c].row.column_id = hist[c].ruleCol
               /\ hist[c].row.position = 0
               /\ op[c].ret = "message"

\* C1, amended: in that case toggleSubtask issues the update of that card to
\* that column and position 0, the card's row has these values if the store
\* accepts the update and the card still exists, and toggleSubtask returns
\* the automation message.
C1_Automation ==
    \A c \in Clients :
        RuleApplies(c)
            => /\ op[c].pc \in {"move.update", "move.log", "move.fetch", "done"}
               /\ op[c].via = "toggle"
               /\ op[c].card = hist[c].ruleCard
               /\ op[c].col = hist[c].ruleCol
               /\ op[c].pos = 0
               /\ op[c].pc = "move.update" => hist[c].moved = "none"
               /\ op[c].pc # "move.update" => hist[c].moved # "none"
               /\ hist[c].moved = "ok"
                    => /\ hist[c].row.column_id = hist[c].ruleCol
                       /\ hist[c].row.position = 0
               /\ Returned(c) => op[c].ret = "message"

C1_Witness ==
    \E c \in Clients :
        /\ RuleApplies(c) /\ Returned(c)
        /\ hist[c].moved = "ok"
        /\ op[c].ret = "message"
        /\ op[c].card \in DOMAIN store.cards
        /\ store.cards[op[c].card].column_id = hist[c].ruleCol

\* C2: a card moved by the automation has all its subtasks complete in the
\* store when the move is written.
C2_AllCompleteAtMove ==
    \A c \in Clients :
        op[c].via = "toggle" /\ hist[c].moved = "ok" => hist[c].allDone

CardPlaces == [k \in DOMAIN store.cards |->
                 <<store.cards[k].column_id, store.cards[k].position>>]

C4_MessageOnlyIfMoved ==
    \A c \in Clients :
        Returned(c) /\ op[c].ret = "message" => hist[c].moved = "ok"

\* C5: after moveCard(card, target, 0) has succeeded and its refetch has
\* completed, the card is the first card of the target column.
C5_LandsFirst ==
    \A c \in Clients : hist[c].landed # "notfirst"

\* C6: no column holds more cards than its wip_limit.
C6_WipRespected ==
    \A k \in DOMAIN store.columns : \A w \in store.columns[k].wip_limit :
        Cardinality(CardsOfColumn(store, k)) <= w

\* C7: once a mutation that changed a table has returned without error,
\* fetchBoard has been called after the change or a change notification
\* is on its way.
C7_Refetched ==
    \A c \in Clients :
        op[c].pc = "done" /\ hist[c].errors = 0 /\ hist[c].dirty => pending[c]

\* C8: a move of a card is accepted whatever other clients wrote to the card
\* before (the target column existing), and the card's row holds the column
\* and position of the move that reached the store last.
C8_LastWriteWins ==
    \A c \in Clients :
        /\ ( /\ op[c].pc = "move.update"
             /\ op[c].card \in DOMAIN store.cards
             /\ op[c].col \in DOMAIN store.columns )
              => ENABLED MoveUpdateOk(c)
        /\ ( /\ hist[c].moved = "ok"
             /\ op[c].card \in DOMAIN store.cards
             /\ ~hist[c].overwritten )
              => /\ store.cards[op[c].card].column_id = hist[c].row.column_id
                 /\ store.cards[op[c].card].position = hist[c].row.position

C8_Witness ==
    \E c, d \in Clients :
        /\ c # d
        /\ hist[c].moved = "ok" /\ hist[d].moved = "ok"
        /\ op[c].card = op[d].card
        /\ hist[c].row.column_id # hist[d].row.column_id
        /\ hist[c].overwritten /\ ~hist[d].overwritten
        /\ hist[c].errors = 0 /\ hist[d].errors = 0
        /\ store.cards[op[d].card].column_id = hist[d].row.column_id

HookMutations ==
    {"addColumn", "updateColumn", "deleteColumn", "addCard", "updateCard", "deleteCard",
     "moveCard", "reorderColumns", "uploadAttachment", "deleteAttachment",
     "toggleSubtask", "assignCard"}

\* the mutation whose store call client c waits for
Waiting(c) == IF op[c].pc = "move.update" THEN "moveCard" ELSE op[c].name

FailureValue(name) ==
    IF name \in {"addColumn", "addCard"} THEN "null"
    ELSE IF name = "toggleSubtask" THEN "{}"
    ELSE "false"

MutationErrors ==
    {"Failed to add column", "Failed to update column", "Failed to delete column",
     "Failed to add card", "Failed to update card", "Failed to delete card",
     "Failed to move card", "Failed to reorder column", "Failed to add comment",
     "Failed to delete comment", "Failed to upload attachment",
     "Failed to delete attachment", "Failed to toggle subtask", "Failed to assign card"}

\* C10: with the board loaded and no fetch running, Board renders the columns
\* and not the error screen when the hook's error comes from a mutation.
C10_BoardStaysRendered ==
    \A c \in Clients :
        /\ hook[c].mounted
        /\ hook[c].board # NoBoard
        /\ ~hook[c].loading
        /\ hook[c].error \in MutationErrors
        => Rendered(c)

\* C11: while the card modal is open and Save has not been clicked, and after
\* it was closed with Cancel, the store is as it was when the modal was opened.
C11_SavedOnlyOnSave ==
    \A c \in Clients :
        local[c].phase \in {"editing", "cancelled"} => store = local[c].atOpen

\* C12: right after Escape the card modal, the search modal, the deadline
\* tracker and the add-column form are closed.
C12_EscapeClosesAll ==
    \A c \in Clients :
        local[c].key = "Escape"
            => /\ local[c].selectedCardId = 0
               /\ ~local[c].isSearchOpen
               /\ ~local[c].isDeadlineOpen
               /\ ~local[c].isAddingColumn

\* C13: at a protected path the page behind ProtectedRoute is rendered only with
\* a user, and while loading is true the guard renders the loader only.
C13_NoPageWithoutUser ==
    nav.location \in ProtectedPaths
        => /\ ProtectedRoute(auth, nav.location) = "outlet" => auth.user # NoUser
           /\ auth.loading => ProtectedRoute(auth, nav.location) = "loader"

\* a protected path is shown to a browser without user, after loading
C13_Witness ==
    /\ nav.location \in ProtectedPaths
    /\ auth.user = NoUser
    /\ ~auth.loading
    /\ ProtectedRoute(auth, nav.location) = "/login"

\* C14: a checkOnboarding run sets needsOnboarding to true only if the user has no
\* membership, no organization and no board in the store at that moment, and to
\* false if the user has one of them.
C14_OnboardingIffNothing == auth.lastCheck # "wrong"

\* C15: once AuthCallback has inserted the membership of an invited user and has
\* called completeOnboarding, needsOnboarding is false for the rest of the session.
C15_InvitedSkipsOnboarding == auth.invited => ~auth.needsOnboarding

\* C16: when a refreshOrganizations run whose queries all answered has set
\* organizations, every organization the user owns or is a member of is in it.
C16_AllOrganizations == auth.lastRefresh # "missing"

\* C17: a change of the system preference does not replace the theme of a tab once
\* toggleTheme or setTheme has been called, and right after toggleTheme or
\* setTheme the value stored under 'kanban-theme' is the theme of the calling tab.
C17_ManualThemeKept ==
    /\ \A c \in Clients : ~themeState.tabs[c].overridden
    /\ themeState.last \in Clients
          => themeState.stored = themeState.tabs[themeState.last].theme

\* C18: a change of a row of another board never makes this board call fetchBoard.
C18_OtherBoardNoFetch == \A c \in Clients : ~other.fetched[c]

\* the call of handleMoveCardToColumn of client c, with the columns it saw
ArrowCall(c) ==
    /\ op[c].via = "arrow"
    /\ op[c].text \in Directions
    /\ op[c].snap # <<>>

\* the column next to the card's column in the direction of the call exists
HasAdjacent(o) ==
    /\ ColumnIndexOfCard(o.snap, o.card) # 0
    /\ ColumnIndexOfCard(o.snap, o.card) + Step(o.text) \in DOMAIN o.snap

\* C19: handleMoveCardToColumn calls the store only if the column next to the
\* card's column in the direction exists, the card row then written has exactly that
\* column, and at the first or last column or for a card that no column holds the
\* handler returns without a store call.
C19_AdjacentOnly ==
    \A c \in Clients :
        ArrowCall(c) =>
            LET o == op[c]
                t == ColumnIndexOfCard(o.snap, o.card) + Step(o.text)
            IN  /\ o.pc # "done" => HasAdjacent(o) /\ o.col = o.snap[t].id
                /\ hist[c].moved = "ok" => HasAdjacent(o) /\ hist[c].row.column_id = o.snap[t].id
                /\ ~HasAdjacent(o) => o.pc = "done" /\ hist[c].moved = "none"

\* an arrow call at the edge returned, and an arrow call moved a card
C19_Witness ==
    /\ ArrowCall("u1") /\ ~HasAdjacent(op["u1"]) /\ op["u1"].card \in DOMAIN store.cards
    /\ ArrowCall("u2") /\ hist["u2"].moved = "ok"

MaxRedirects == 3

\* the guards have a user and are past the loader
GuardsDecide == auth.user # NoUser /\ ~auth.loading

\* the page the claim names for a requested url
PageAsStated(url) ==
    IF NeedsProfileSetup(auth) THEN "/profile-setup"
    ELSE IF auth.needsOnboarding THEN "/onboarding"
    ELSE IF url \in ProtectedPaths THEN url
    ELSE "/dashboard"

\* the same, with /profile-setup shown as requested to a user who needs onboarding only
PageFor(url) ==
    IF NeedsProfileSetup(auth) THEN "/profile-setup"
    ELSE IF auth.needsOnboarding /\ url # "/profile-setup" THEN "/onboarding"
    ELSE IF url \in ProtectedPaths THEN url
    ELSE "/dashboard"

\* C20 as stated: with a user and loading false the guards reach a page after at most
\* MaxRedirects redirects, and the page is /profile-setup if needsProfileSetup, else
\* /onboarding if needsOnboarding, else the requested protected page or /dashboard.
C20_AsStated ==
    GuardsDecide =>
        /\ nav.redirects <= MaxRedirects
        /\ AppRoutes(auth, nav) = "outlet" => nav.location = PageAsStated(nav.requested)

\* C20: with a user and loading false the guards reach a page after at most
\* MaxRedirects redirects, and the page is /profile-setup if needsProfileSetup, else
\* /onboarding if needsOnboarding and /profile-setup was not requested, else the
\* requested protected page or /dashboard.
C20_Resolves ==
    GuardsDecide =>
        /\ nav.redirects <= MaxRedirects
        /\ AppRoutes(auth, nav) = "outlet" => nav.location = PageFor(nav.requested)

\* /onboarding is rendered after three redirects from an unknown url
C20_Witness ==
    /\ GuardsDecide
    /\ nav.requested = "/nowhere"
    /\ nav.redirects = MaxRedirects
    /\ nav.location = "/onboarding"
    /\ AppRoutes(auth, nav) = "outlet"

\* no mutation is running, and client c has no notification to come, no fetchBoard
\* call in flight and no error
Quiet(c) ==
    /\ hook[c].mounted
    /\ hook[c].error = NoError
    /\ ~pending[c]
    /\ \A sl \in FetchSlots : fetches[c][sl].stage = "none"
    /\ \A d \in Clients : op[d].pc \in {"idle", "done"}

\* the columns of the hook hold the column rows and the card rows of the store
SameRows(cols, st) ==
    /\ {cols[i].id : i \in DOMAIN cols} = DOMAIN st.columns
    /\ \A i \in DOMAIN cols :
          /\ cols[i].title = st.columns[cols[i].id].title
          /\ cols[i].position = st.columns[cols[i].id].position
    /\ {cd.id : cd \in ViewCards(cols)} = DOMAIN st.cards
    /\ \A i \in DOMAIN cols : \A j \in DOMAIN cols[i].cards :
          LET cd == cols[i].cards[j]
          IN  /\ cd.column_id = cols[i].id
              /\ st.cards[cd.id].column_id = cd.column_id
              /\ st.cards[cd.id].position = cd.position
              /\ st.cards[cd.id].title = cd.title

\* C21: when no mutation runs, every notification is delivered and every fetchBoard
\* call of a client has completed, its board and columns are those of the store.
C21_Converges ==
    \A c \in Clients :
        Quiet(c) => hook[c].board = "b1" /\ SameRows(hook[c].columns, store)

\* the card modal of client c is on screen with unsaved edits and the user has
\* clicked neither Save nor Cancel
DraftOpen(c) ==
    /\ ModalShown(c)
    /\ local[c].hasUnsavedChanges
    /\ local[c].awaiting = "none"

\* C22: a step of a board refetch of a client (a notification that calls
\* fetchBoard, or an answer to one of its queries) leaves the card modal with
\* unsaved edits on screen and its draft as it is.
C22_DraftKept ==
    [][\A c \in Clients :
          (DraftOpen(c) /\ hook'[c] # hook[c] /\ op'[c] = op[c])
              => /\ hook'[c].mounted /\ ~hook'[c].loading /\ hook'[c].error = NoError
                 /\ FindCard(hook'[c].columns, local'[c].selectedCardId) # {}
                 /\ local'[c].title = local[c].title
                 /\ local'[c].hasUnsavedChanges]_vars

\* the calendar day of the browser's clock
Today == (filterView.now + filterView.zone) \div HoursPerDay

\* the criteria of the filter state, with the due day as CardModal shows it
Satisfies(card) ==
    LET fs == filterView.filterState
        q == toLowerCase(fs.searchQuery)
    IN  /\ \/ fs.searchQuery = <<>>
           \/ includes(toLowerCase(card.title), q)
           \/ includes(toLowerCase(card.description), q)
        /\ fs.labels = {} \/ \E l \in fs.labels : l \in card.labels
        /\ fs.priorities = {} \/ card.priority \in fs.priorities
        /\ CASE fs.dateFilter = "all" -> TRUE
             [] fs.dateFilter = "no-date" -> card.due_date = <<>>
             [] fs.dateFilter = "overdue" ->
                    card.due_date # <<>> /\ card.due_date[1] < Today
             [] fs.dateFilter = "today" ->
                    card.due_date # <<>> /\ card.due_date[1] = Today
             [] fs.dateFilter = "week" ->
                    /\ card.due_date # <<>>
                    /\ card.due_date[1] >= Today
                    /\ card.due_date[1] <= Today + DaysOfWeekFilter

\* C23: with the default filter state filteredColumns is columns; with any filter
\* state it has the same columns in the same order, and the cards of each column
\* are, in their order, exactly the cards that satisfy every active criterion.
C23_FilterExact ==
    LET f == filterView
    IN  /\ f.filterState = DEFAULT_FILTER_STATE => f.filteredColumns = f.columns
        /\ Len(f.filteredColumns) = Len(f.columns)
        /\ \A i \in DOMAIN f.columns :
              /\ f.filteredColumns[i].id = f.columns[i].id
              /\ f.filteredColumns[i].cards = SelectSeq(f.columns[i].cards, Satisfies)

\* C24: no two cards of one column have the same position.
C24_PositionsDistinct ==
    \A a, b \in DOMAIN store.cards :
        (a # b /\ store.cards[a].column_id = store.cards[b].column_id)
            => store.cards[a].position # store.cards[b].position

=============================================================================
